---- MODULE Spec2Model ----
(***************************************************************************)
(* Access-control engine of the secret manager                             *)
(* (backend/secret_manager/service.py over the tables of                   *)
(* backend/secret_manager/models.py and backend/auth/models.py).           *)
(*                                                                         *)
(* Every service function runs inside database.session_scope(): its        *)
(* SELECTs read the committed tables, its pending INSERT/DELETE rows are   *)
(* written when session_scope() reaches session.commit(), and an exception *)
(* rolls everything back.  A mutating request is therefore two steps: the  *)
(* body of the "with" block (reads and checks), then the commit (writes,   *)
(* checked by the constraints the tables declare: the primary keys and     *)
(* uix_owner_key).  get_secret_for_user and list_visible are two steps     *)
(* too, one per query.                                                     *)
(* FastAPI runs the synchronous handlers on a thread pool, so the steps of *)
(* different requests interleave; Spec lets them, SeqSpec runs one request *)
(* at a time.                                                              *)
(*                                                                         *)
(* The database is the default one (DB_URL sqlite:///./secrets.db): a new  *)
(* row's integer primary key is the largest one in the table plus one, and *)
(* the ForeignKey columns are declared but not enforced (no PRAGMA         *)
(* foreign_keys), so a row may name a secret that is gone.                 *)
(*                                                                         *)
(* The login flow (backend/auth/service.py, backend/auth/router.py) keeps  *)
(* its sessions and state tokens in two module-level dicts that no lock    *)
(* protects.  One step of a handler is one operation on a shared dict (a   *)
(* get, a pop, an item assignment) or one call of the identity provider;   *)
(* a sweep of expired entries iterates a dict, and an iteration that has   *)
(* begun on a non-empty dict raises RuntimeError when another thread       *)
(* changes the dict's size before it ends.  AuthSpec interleaves the       *)
(* handlers of two threads, AuthSeqSpec runs one request at a time.        *)
(*                                                                         *)
(* The identity verifier (fetch_github_user, verify_access_token) asks the *)
(* provider once per authentication scheme; each call is a step whose      *)
(* answer the provider chooses.  parse_token and login_with_personal_token *)
(* run it and then get_or_create_user (VerifySpec).  The CLI's login with  *)
(* GH_ACCESS_TOKEN (cli/cli.py) posts the token to /auth/login-test and    *)
(* writes its token file from the response.  SignInSpec runs every way to  *)
(* authenticate, one request at a time.                                    *)
(*                                                                         *)
(* The CLI's other commands: `logout` reads ~/.token with _load_token and  *)
(* unlinks it (CliSpec, where the file's content between two commands is   *)
(* an input); `login` without GH_ACCESS_TOKEN posts /auth/login and polls  *)
(* /auth/login/{session_id} until its deadline while the browser it opened *)
(* sends the callback (RedirectSpec: the CLI is one process, the server    *)
(* handles one request at a time).  RepositorySpec runs the secret         *)
(* operations and the authenticating handlers one after another.           *)
(***************************************************************************)
EXTENDS Integers, FiniteSets, Sequences, TLC

\* ---------------------------------------------------------------- inputs
Users == {"alice", "bob", "carol"}
Keys == {"db", "api"}
Values == {"v1", "v2"}
Threads == {1, 2}

\* Requests that race with each other are drawn from these.
RaceUsers == {"alice", "bob"}
RaceKeys == {"db"}

\* The model stops inserting at these primary keys: at most MaxSecretId rows
\* in secrets and MaxShareId rows in shares.
MaxSecretId == 2
MaxShareId == 2

\* The model stops after this many initiate_login calls.
MaxLogins == 2

\* The identities the provider vouches for in the login flow.
GitHubIds == {"alice"}

STATE_TTL_SECONDS == 300
SESSION_TTL_SECONDS == 600

\* The instants of time.time() the model distinguishes: each TTL, reached
\* exactly and passed by a second.
Instants ==
    {0, STATE_TTL_SECONDS, STATE_TTL_SECONDS + 1,
     SESSION_TTL_SECONDS, SESSION_TTL_SECONDS + 1}

\* The instants of the runs whose requests race: the start, and both TTLs
\* passed.
RaceInstants == {0, SESSION_TTL_SECONDS + 1}

VARIABLES
    users,      \* table users: set of github_id
    secrets,    \* table secrets: rows [id, key, value, owner_id]
    shares,     \* table shares: rows [id, secret_id, user_id]
    pc,         \* per request thread: position in its handler
    req,        \* per request thread: the call and what its session holds
    ret,        \* the response of the call that completed in the last step
    revoked,    \* history: the grants [user, key] the latest delete removed,
                \* kept until the tables change again
    now,                \* time.time()
    SESSION_STORE,      \* the session ids that are keys of SESSION_STORE
    session_dicts,      \* the dict object of every session ever stored, by id
    OAUTH_STATE_STORE,  \* state token -> [created_at, session_id]
    issued,             \* how many (state, session_id) pairs were generated
    spent,              \* history: the state tokens removed from the store
    TOKEN_FILE          \* the CLI's ~/.token: NoFile, or the text it holds

vars == <<users, secrets, shares, pc, req, ret, revoked,
          now, SESSION_STORE, session_dicts, OAUTH_STATE_STORE, issued, spent,
          TOKEN_FILE>>

auth_vars == <<now, SESSION_STORE, session_dicts, OAUTH_STATE_STORE, issued, spent>>

NoReq == [op |-> "none"]
NoRet == [op |-> "none"]
NoSecret == [id |-> 0]
\* TOKEN_FILE.exists() is false.  A file that exists is held by what
\* json.loads makes of its text: `loads` is "object" for a JSON object, whose
\* members follow, and else names what json.loads raises or returns.
NoFile ==
    [exists |-> FALSE, loads |-> "none", access_token |-> [t |-> "null", v |-> ""],
     github_id |-> [t |-> "null", v |-> ""]]

\* ------------------------------------------------------------ the tables
SetMax(S) == CHOOSE m \in S : \A x \in S : x <= m

\* Integer primary key without AUTOINCREMENT: the next rowid is max + 1.
NextId(rows) == IF rows = {} THEN 1 ELSE SetMax({r.id : r \in rows}) + 1

\* select(Secret).where(Secret.owner == owner, Secret.key == key)
OwnedBy(owner, key) == {s \in secrets : s.owner_id = owner /\ s.key = key}

\* The shared-secret query without its join condition.
SharedToUnjoined(me, key) ==
    {s \in secrets : s.key = key /\ \E sh \in shares : sh.user_id = me}

\* The shared-secret query without its grantee filter.
SharedToAnyone(me, key) ==
    {s \in secrets : s.key = key /\ \E sh \in shares : sh.secret_id = s.id}

\* The shared-secret query without its key filter.
SharedToAnyKey(me, key) ==
    {s \in secrets : \E sh \in shares : sh.secret_id = s.id /\ sh.user_id = me}

\* select(Secret).join(Secret.shares).where(Secret.key == key, Share.user == me)
SharedTo(me, key) ==
    {s \in secrets : s.key = key /\
        \E sh \in shares : sh.secret_id = s.id /\ sh.user_id = me}

\* select(Share).where(Share.secret == secret, Share.user == target)
Grants(sid, target) == {sh \in shares : sh.secret_id = sid /\ sh.user_id = target}

\* A Secret.shares relationship that does not cascade.
SharesOfNoCascade(sid) == {}

\* Secret.shares, loaded by the delete cascade
SharesOf(sid) == {sh \in shares : sh.secret_id = sid}

\* The secrets table declared without its unique constraint.
UixOwnerKeyDropped(rows) == TRUE

\* UniqueConstraint("owner_id", "key", name="uix_owner_key")
UixOwnerKey(rows) ==
    \A s, t \in rows : (s.owner_id = t.owner_id /\ s.key = t.key) => s = t

\* ---------------------------------------------------------------- responses
Call(op, caller, key, arg) == [op |-> op, caller |-> caller, key |-> key, arg |-> arg]

Response(call, result) ==
    [op |-> call.op, caller |-> call.caller, key |-> call.key,
     arg |-> call.arg, result |-> result]

\* The handler returns or raises: the thread is free for the next request.
Finish(t, call, result) ==
    /\ pc' = [pc EXCEPT ![t] = "idle"]
    /\ req' = [req EXCEPT ![t] = NoReq]
    /\ ret' = Response(call, result)
    /\ UNCHANGED auth_vars
    /\ UNCHANGED TOKEN_FILE

\* The handler goes on: session.commit() (or its second query) is still to run.
Goto(t, label, r) ==
    /\ pc' = [pc EXCEPT ![t] = label]
    /\ req' = [req EXCEPT ![t] = r]
    /\ ret' = NoRet
    /\ UNCHANGED auth_vars
    /\ UNCHANGED TOKEN_FILE

\* Requests past their body whose commit will insert a row (for the bounds).
Pending(label) == Cardinality({t \in Threads : pc[t] = label})

UNCHANGED_DB == UNCHANGED <<users, secrets, shares, revoked>>

Init ==
    /\ users = {}
    /\ secrets = {}
    /\ shares = {}
    /\ pc = [t \in Threads |-> "idle"]
    /\ req = [t \in Threads |-> NoReq]
    /\ ret = NoRet
    /\ revoked = {}
    /\ now = 0
    /\ SESSION_STORE = {}
    /\ session_dicts = <<>>
    /\ OAUTH_STATE_STORE = <<>>
    /\ issued = 0
    /\ spent = {}
    /\ TOKEN_FILE = NoFile

\* ------------------------------------------------------------- put_secret
\* put_secret without its duplicate-key check.
PutExistingUnchecked(owner, key) == FALSE

\* A put_secret whose keys are one namespace for all owners.
PutExistingAnyOwner(owner, key) == \E s \in secrets : s.key = key

\* existing = select(Secret).where(owner, key).first()
PutExisting(owner, key) == OwnedBy(owner, key) # {}

PutBody(t, owner, key, value) ==
    /\ pc[t] = "idle"
    /\ LET call == Call("put", owner, key, value) IN
       IF PutExisting(owner, key)
       THEN /\ Finish(t, call, "KeyExists")
            /\ UNCHANGED_DB
       ELSE /\ NextId(secrets) + Pending("put_commit") <= MaxSecretId
            /\ Goto(t, "put_commit", [call |-> call, mkuser |-> owner \notin users])
            /\ UNCHANGED_DB

\* A commit of put_secret that writes the Secret row and loses the User row.
PutCommitSecretOnly(t) ==
    /\ pc[t] = "put_commit"
    /\ LET r == req[t]
           row == [id |-> NextId(secrets), key |-> r.call.key,
                   value |-> r.call.arg, owner_id |-> r.call.caller] IN
       /\ secrets' = secrets \cup {row}
       /\ UNCHANGED <<users, shares>>
       /\ revoked' = {}
       /\ Finish(t, r.call, "ok")

\* The INSERTs of the new User (when put_secret created one) and of the
\* Secret; a primary-key or uix_owner_key violation raises IntegrityError,
\* which session_scope rolls back.
PutCommit(t) ==
    /\ pc[t] = "put_commit"
    /\ LET r == req[t]
           owner == r.call.caller
           row == [id |-> NextId(secrets), key |-> r.call.key,
                   value |-> r.call.arg, owner_id |-> owner] IN
       IF (r.mkuser /\ owner \in users) \/ ~UixOwnerKey(secrets \cup {row})
       THEN /\ Finish(t, r.call, "IntegrityError")
            /\ UNCHANGED_DB
       ELSE /\ users' = users \cup {owner}
            /\ secrets' = secrets \cup {row}
            /\ UNCHANGED shares
            /\ revoked' = {}
            /\ Finish(t, r.call, "ok")

\* ---------------------------------------------------- get_secret_for_user
\* A get_secret_for_user that runs its shared query first.
GetSharedFirst(t, me, key) ==
    /\ pc[t] = "idle"
    /\ UNCHANGED_DB
    /\ LET call == Call("get", me, key, "") IN
       IF me \notin users
       THEN Finish(t, call, NoSecret)
       ELSE IF SharedTo(me, key) # {}
            THEN \E s \in SharedTo(me, key) : Finish(t, call, s)
            ELSE IF OwnedBy(me, key) # {}
                 THEN \E s \in OwnedBy(me, key) : Finish(t, call, s)
                 ELSE Finish(t, call, NoSecret)

GetOwned(t, me, key) ==
    /\ pc[t] = "idle"
    /\ UNCHANGED_DB
    /\ LET call == Call("get", me, key, "") IN
       IF me \notin users
       THEN Finish(t, call, NoSecret)
       ELSE IF OwnedBy(me, key) # {}
            THEN \E s \in OwnedBy(me, key) : Finish(t, call, s)
            ELSE Goto(t, "get_shared", [call |-> call])

GetShared(t) ==
    /\ pc[t] = "get_shared"
    /\ UNCHANGED_DB
    /\ LET call == req[t].call IN
       IF SharedTo(call.caller, call.key) = {}
       THEN Finish(t, call, NoSecret)
       ELSE \E s \in SharedTo(call.caller, call.key) : Finish(t, call, s)

\* ------------------------------------------------------------ list_visible
\* The rows of a result in the order the default database returns them when
\* the statement has no ORDER BY: by rowid.
RECURSIVE ById(_)
ById(rows) ==
    IF rows = {} THEN <<>>
    ELSE LET r == CHOOSE x \in rows : \A y \in rows : x.id <= y.id
         IN <<r>> \o ById(rows \ {r})

\* {"key": secret.key, "value": secret.value, "owner_id": secret.owner.github_id}
Entry(s) == [key |-> s.key, value |-> s.value, owner_id |-> s.owner_id]

\* owned = select(Secret).where(Secret.owner == me).all()
ListOwnedRows(me) == {s \in secrets : s.owner_id = me}

\* The shared query of list_visible without its grantee filter.
ListSharedRowsOfAnyone(me) ==
    {[id |-> sh.id, secret |-> s] : <<s, sh>> \in
        {p \in secrets \X shares : p[2].secret_id = p[1].id}}

\* shared = select(Secret).join(Secret.shares).where(Share.user == me).all():
\* one row of the join per Share row of me whose secret exists.
ListSharedRows(me) ==
    {[id |-> sh.id, secret |-> s] : <<s, sh>> \in
        {p \in secrets \X shares : p[2].secret_id = p[1].id /\ p[2].user_id = me}}

Entries(rows) == [i \in DOMAIN rows |-> Entry(rows[i])]
JoinedEntries(rows) == [i \in DOMAIN rows |-> Entry(rows[i].secret)]

ListOwned(t, me) ==
    /\ pc[t] = "idle"
    /\ UNCHANGED_DB
    /\ LET call == Call("list", me, "", "") IN
       IF me \notin users
       THEN Finish(t, call, <<>>)
       ELSE Goto(t, "list_shared",
                 [call |-> call, owned |-> Entries(ById(ListOwnedRows(me)))])

\* results = owned + shared
ListShared(t) ==
    /\ pc[t] = "list_shared"
    /\ UNCHANGED_DB
    /\ LET r == req[t] IN
       Finish(t, r.call,
              r.owned \o JoinedEntries(ById(ListSharedRows(r.call.caller))))

\* ----------------------------------------------------------- share_secret
\* share_secret without its duplicate-grant check.
ShareDuplicateUnchecked(sid, target) == FALSE

\* duplicate = select(Share).where(secret, target).first()
ShareDuplicate(sid, target) == Grants(sid, target) # {}

\* A share that accepts any secret the caller can read.
ShareSecretVisible(owner, key) == OwnedBy(owner, key) \cup SharedTo(owner, key)

\* secret = select(Secret).where(Secret.owner == owner, Secret.key == key).first()
ShareSecret(owner, key) == OwnedBy(owner, key)

ShareBody(t, owner, key, target) ==
    /\ pc[t] = "idle"
    /\ UNCHANGED_DB
    /\ LET call == Call("share", owner, key, target) IN
       IF owner \notin users
       THEN Finish(t, call, "OwnerMissing")
       ELSE IF ShareSecret(owner, key) = {}
       THEN Finish(t, call, "SecretNotFound")
       ELSE \E secret \in ShareSecret(owner, key) :
            LET mkuser == target \notin users
                grant == ~ShareDuplicate(secret.id, target) IN
            IF ~grant /\ ~mkuser
            THEN Finish(t, call, "ok")
            ELSE /\ grant => NextId(shares) + Pending("share_commit") <= MaxShareId
                 /\ Goto(t, "share_commit",
                         [call |-> call, sid |-> secret.id,
                          mkuser |-> mkuser, grant |-> grant])

\* The INSERTs of the target User (when share_secret created one) and of
\* the Share; no constraint of the shares table can reject the Share.
ShareCommit(t) ==
    /\ pc[t] = "share_commit"
    /\ LET r == req[t]
           target == r.call.arg
           row == [id |-> NextId(shares), secret_id |-> r.sid, user_id |-> target] IN
       IF r.mkuser /\ target \in users
       THEN /\ Finish(t, r.call, "IntegrityError")
            /\ UNCHANGED_DB
       ELSE /\ users' = users \cup {target}
            /\ shares' = IF r.grant THEN shares \cup {row} ELSE shares
            /\ UNCHANGED secrets
            /\ revoked' = {}
            /\ Finish(t, r.call, "ok")

\* ---------------------------------------------------------- delete_secret
\* A delete that accepts any secret the caller can read.
DeleteSecretVisible(owner, key) == OwnedBy(owner, key) \cup SharedTo(owner, key)

\* secret = select(Secret).where(Secret.owner == owner, Secret.key == key).first()
DeleteSecret(owner, key) == OwnedBy(owner, key)

\* session.delete(secret) loads secret.shares for the cascade.
DeleteBody(t, owner, key) ==
    /\ pc[t] = "idle"
    /\ UNCHANGED_DB
    /\ LET call == Call("delete", owner, key, "") IN
       IF owner \notin users \/ DeleteSecret(owner, key) = {}
       THEN Finish(t, call, "NotFound")
       ELSE \E secret \in DeleteSecret(owner, key) :
            Goto(t, "delete_commit",
                 [call |-> call, sid |-> secret.id,
                  cascade |-> {sh.id : sh \in SharesOf(secret.id)}])

\* DELETE of the Share rows the cascade loaded, then of the Secret, by id.
DeleteCommit(t) ==
    /\ pc[t] = "delete_commit"
    /\ LET r == req[t] IN
       /\ shares' = {sh \in shares : sh.id \notin r.cascade}
       /\ secrets' = {s \in secrets : s.id # r.sid}
       /\ UNCHANGED users
       /\ revoked' = {[user |-> sh.user_id, key |-> r.call.key] :
                         sh \in {x \in shares : x.secret_id = r.sid}}
       /\ Finish(t, r.call, "ok")

\* ------------------------------------------------------------------ specs
Step(t, US, KS) ==
    \/ \E o \in US, k \in KS, v \in Values : PutBody(t, o, k, v)
    \/ PutCommit(t)
    \/ \E u \in US, k \in KS : GetOwned(t, u, k)
    \/ GetShared(t)
    \/ \E u \in US : ListOwned(t, u)
    \/ ListShared(t)
    \/ \E o \in US, k \in KS, g \in US : ShareBody(t, o, k, g)
    \/ ShareCommit(t)
    \/ \E o \in US, k \in KS : DeleteBody(t, o, k)
    \/ DeleteCommit(t)

\* Requests on the thread pool, interleaved at their commits.
Next == \E t \in Threads : Step(t, RaceUsers, RaceKeys)

Spec == Init /\ [][Next]_vars

\* One request at a time: each handler runs to its return before the next starts.
SeqNext == Step(1, Users, Keys)

SeqSpec == Init /\ [][SeqNext]_vars

\* ============================================================ login flow
\* Python's None in a session's "token" and "error_message".
NoToken == [access_token |-> "None", user |-> "None"]
NoMessage == "None"

\* session["token"] as complete_session builds it
Token(user) == [access_token |-> "gho", user |-> user]

\* d[k] = v and the removal of keys ks, on a dict held as a function
Stored(d, k, v) == [x \in DOMAIN d \cup {k} |-> IF x = k THEN v ELSE d[x]]
\* A pop that removes nothing.
WithoutNone(d, ks) == d
Without(d, ks) == [x \in DOMAIN d \ ks |-> d[x]]

AuthCall(op, id) == [op |-> op, id |-> id]
AuthResponse(call, result) == [op |-> call.op, id |-> call.id, result |-> result]

\* The handler returns or raises.
Return(t, call, result) ==
    /\ pc' = [pc EXCEPT ![t] = "idle"]
    /\ req' = [req EXCEPT ![t] = NoReq]
    /\ ret' = AuthResponse(call, result)
    /\ UNCHANGED TOKEN_FILE

\* The handler goes on to its next operation on the shared dicts.
Continue(t, label, r) ==
    /\ pc' = [pc EXCEPT ![t] = label]
    /\ req' = [req EXCEPT ![t] = r]
    /\ ret' = NoRet
    /\ UNCHANGED TOKEN_FILE

\* A sweep that never finds an entry expired.
ExpiredStatesNever(at) == {}

\* A sweep that finds every state token expired.
ExpiredStatesAll(at) == DOMAIN OAUTH_STATE_STORE

\* [state for state, metadata in OAUTH_STATE_STORE.items()
\*     if now - metadata.get("created_at", 0) > STATE_TTL_SECONDS]
ExpiredStates(at) ==
    {st \in DOMAIN OAUTH_STATE_STORE :
        at - OAUTH_STATE_STORE[st].created_at > STATE_TTL_SECONDS}

\* A sweep that finds every session expired.
ExpiredSessionsAll(at) == SESSION_STORE

ExpiredSessionsNever(at) == {}

\* [session_id for session_id, metadata in SESSION_STORE.items()
\*     if now - metadata.get("created_at", 0) > SESSION_TTL_SECONDS]
ExpiredSessions(at) ==
    {id \in SESSION_STORE :
        at - session_dicts[id].created_at > SESSION_TTL_SECONDS}

\* for state in expired: OAUTH_STATE_STORE.pop(state, None)
CleanupStates(at) ==
    /\ OAUTH_STATE_STORE' = Without(OAUTH_STATE_STORE, ExpiredStates(at))
    /\ spent' = spent \cup ExpiredStates(at)

\* for session_id in expired: SESSION_STORE.pop(session_id, None)
CleanupSessions(at) == SESSION_STORE' = SESSION_STORE \ ExpiredSessions(at)

\* What a dict iterator sees of its dict: the size, and how many insertions
\* and removals the dict has had (each changes the size by one).
StateMark ==
    [size |-> Cardinality(DOMAIN OAUTH_STATE_STORE),
     ver |-> Cardinality(DOMAIN OAUTH_STATE_STORE \cup spent) + Cardinality(spent)]
SessionMark ==
    [size |-> Cardinality(SESSION_STORE),
     ver |-> Cardinality(DOMAIN session_dicts) +
             Cardinality(DOMAIN session_dicts \ SESSION_STORE)]

\* Does the iteration begun at mark raise "dictionary changed size during
\* iteration"?  Not on a dict that was empty (the iteration ended at once) or
\* was left alone; certainly when the size differs at its end; possibly when
\* the size changed and changed back in between.
ScanRaises(mark, cur) ==
    IF mark.size = 0 \/ mark.ver = cur.ver THEN {FALSE}
    ELSE IF mark.size # cur.size THEN {TRUE}
    ELSE {TRUE, FALSE}

\* ------------------------------------------------------------ initiate_login
\* state and session_id are fresh random tokens; _cleanup_states begins.
LoginBegin(t) ==
    /\ pc[t] = "idle"
    /\ issued < MaxLogins
    /\ issued' = issued + 1
    /\ Continue(t, "login_scan_states",
                [call |-> AuthCall("login", issued + 1), now |-> now,
                 mark |-> StateMark])
    /\ UNCHANGED <<now, SESSION_STORE, session_dicts, OAUTH_STATE_STORE, spent>>
    /\ UNCHANGED_DB

\* _cleanup_states ends (router.login turns a RuntimeError into a 500), and
\* _cleanup_sessions begins.
LoginSweepStates(t) ==
    /\ pc[t] = "login_scan_states"
    /\ LET r == req[t] IN
       \E raise \in ScanRaises(r.mark, StateMark) :
          IF raise
          THEN /\ Return(t, r.call, [status |-> "server_error"])
               /\ UNCHANGED <<OAUTH_STATE_STORE, spent>>
          ELSE /\ CleanupStates(r.now)
               /\ Continue(t, "login_scan_sessions", [r EXCEPT !.mark = SessionMark])
    /\ UNCHANGED <<now, SESSION_STORE, session_dicts, issued>>
    /\ UNCHANGED_DB

LoginSweepSessions(t) ==
    /\ pc[t] = "login_scan_sessions"
    /\ LET r == req[t] IN
       \E raise \in ScanRaises(r.mark, SessionMark) :
          IF raise
          THEN /\ Return(t, r.call, [status |-> "server_error"])
               /\ UNCHANGED SESSION_STORE
          ELSE /\ CleanupSessions(r.now)
               /\ Continue(t, "login_insert_session", r)
    /\ UNCHANGED <<now, session_dicts, OAUTH_STATE_STORE, issued, spent>>
    /\ UNCHANGED_DB

\* SESSION_STORE[session_id] = {"created_at": now, "status": "pending", ...}
LoginInsertSession(t) ==
    /\ pc[t] = "login_insert_session"
    /\ LET r == req[t]
           id == r.call.id IN
       /\ SESSION_STORE' = SESSION_STORE \cup {id}
       /\ session_dicts' =
             Stored(session_dicts, id,
                    [created_at |-> r.now, status |-> "pending", state |-> id,
                     token |-> NoToken, error_message |-> NoMessage])
       /\ Continue(t, "login_insert_state", r)
    /\ UNCHANGED <<now, OAUTH_STATE_STORE, issued, spent>>
    /\ UNCHANGED_DB

\* OAUTH_STATE_STORE[state] = {"created_at": now, "session_id": session_id}
LoginInsertState(t) ==
    /\ pc[t] = "login_insert_state"
    /\ LET r == req[t]
           id == r.call.id IN
       /\ OAUTH_STATE_STORE' =
             Stored(OAUTH_STATE_STORE, id, [created_at |-> r.now, session_id |-> id])
       /\ Return(t, r.call, [status |-> "ok", session_id |-> id, state |-> id])
    /\ UNCHANGED <<now, SESSION_STORE, session_dicts, issued, spent>>
    /\ UNCHANGED_DB

\* -------------------------------------------------------- get_session_status
PollBegin(t, id) ==
    /\ pc[t] = "idle"
    /\ Continue(t, "poll_scan",
                [call |-> AuthCall("poll", id), now |-> now, mark |-> SessionMark])
    /\ UNCHANGED auth_vars
    /\ UNCHANGED_DB

PollSweep(t) ==
    /\ pc[t] = "poll_scan"
    /\ LET r == req[t] IN
       \E raise \in ScanRaises(r.mark, SessionMark) :
          IF raise
          THEN /\ Return(t, r.call, [status |-> "server_error"])
               /\ UNCHANGED SESSION_STORE
          ELSE /\ CleanupSessions(r.now)
               /\ Continue(t, "poll_lookup", r)
    /\ UNCHANGED <<now, session_dicts, OAUTH_STATE_STORE, issued, spent>>
    /\ UNCHANGED_DB

\* A lookup that finds every session that was ever stored.
PollFindsRemoved(id) == id \in DOMAIN session_dicts

\* session = SESSION_STORE.get(session_id)
PollFinds(id) == id \in SESSION_STORE

PollLookup(t) ==
    /\ pc[t] = "poll_lookup"
    /\ LET r == req[t] IN
       IF PollFinds(r.call.id)
       THEN Continue(t, "poll_status", r)
       ELSE Return(t, r.call, [status |-> "not_found"])
    /\ UNCHANGED auth_vars
    /\ UNCHANGED_DB

\* status = session.get("status", "pending")
PollStatus(t) ==
    /\ pc[t] = "poll_status"
    /\ LET r == req[t]
           status == session_dicts[r.call.id].status IN
       IF status = "pending"
       THEN Return(t, r.call, [status |-> "pending"])
       ELSE Continue(t, "poll_take", [call |-> r.call, status |-> status])
    /\ UNCHANGED auth_vars
    /\ UNCHANGED_DB

\* The token (or the message) is read, the session is popped, the result
\* is returned.
PollTake(t) ==
    /\ pc[t] = "poll_take"
    /\ LET r == req[t]
           session == session_dicts[r.call.id] IN
       /\ SESSION_STORE' = SESSION_STORE \ {r.call.id}
       /\ IF r.status = "ready"
          THEN Return(t, r.call, [status |-> "ready", token |-> session.token])
          ELSE Return(t, r.call,
                      [status |-> "error",
                       message |-> IF session.error_message = NoMessage
                                   THEN "Login failed"
                                   ELSE session.error_message])
    /\ UNCHANGED <<now, session_dicts, OAUTH_STATE_STORE, issued, spent>>
    /\ UNCHANGED_DB

\* ------------------------------------------------------------------ callback
\* A validation that reads the state token and leaves it in the store.
ValidatePopKeeps(st) == OAUTH_STATE_STORE

\* A validation that sweeps the expired state tokens before it looks.
ValidatePopSweeps(st) == Without(OAUTH_STATE_STORE, {st} \cup ExpiredStates(now))

\* metadata = OAUTH_STATE_STORE.pop(state, None): the store afterwards
ValidatePop(st) == Without(OAUTH_STATE_STORE, {st})

\* _validate_state: the pop and the checks of what it returned.
CallbackBegin(t, st) ==
    /\ pc[t] = "idle"
    /\ LET call == AuthCall("callback", st) IN
       /\ OAUTH_STATE_STORE' = ValidatePop(st)
       /\ spent' = spent \cup (DOMAIN OAUTH_STATE_STORE \ DOMAIN ValidatePop(st))
       /\ IF st \notin DOMAIN OAUTH_STATE_STORE
          THEN Return(t, call, "InvalidState")
          ELSE LET metadata == OAUTH_STATE_STORE[st] IN
               IF now - metadata.created_at > STATE_TTL_SECONDS
               THEN Return(t, call, "InvalidState")
               ELSE Continue(t, "cb_session",
                             [call |-> call, now |-> now, id |-> metadata.session_id])
    /\ UNCHANGED <<now, SESSION_STORE, session_dicts, issued>>
    /\ UNCHANGED_DB

\* if session_id is None or session_id not in SESSION_STORE; then
\* _cleanup_states begins.
ValidateSession(t) ==
    /\ pc[t] = "cb_session"
    /\ LET r == req[t] IN
       IF r.id \notin SESSION_STORE
       THEN Return(t, r.call, "SessionExpired")
       ELSE Continue(t, "cb_scan_states",
                     [call |-> r.call, now |-> r.now, id |-> r.id, mark |-> StateMark])
    /\ UNCHANGED auth_vars
    /\ UNCHANGED_DB

\* A RuntimeError of a sweep leaves exchange_code_for_token before the
\* callback knows its session_id: the router answers 500.
ValidateSweepStates(t) ==
    /\ pc[t] = "cb_scan_states"
    /\ LET r == req[t] IN
       \E raise \in ScanRaises(r.mark, StateMark) :
          IF raise
          THEN /\ Return(t, r.call, "ServerError")
               /\ UNCHANGED <<OAUTH_STATE_STORE, spent>>
          ELSE /\ CleanupStates(r.now)
               /\ Continue(t, "cb_scan_sessions", [r EXCEPT !.mark = SessionMark])
    /\ UNCHANGED <<now, SESSION_STORE, session_dicts, issued>>
    /\ UNCHANGED_DB

ValidateSweepSessions(t) ==
    /\ pc[t] = "cb_scan_sessions"
    /\ LET r == req[t] IN
       \E raise \in ScanRaises(r.mark, SessionMark) :
          IF raise
          THEN /\ Return(t, r.call, "ServerError")
               /\ UNCHANGED SESSION_STORE
          ELSE /\ CleanupSessions(r.now)
               /\ Continue(t, "cb_exchange", [call |-> r.call, id |-> r.id])
    /\ UNCHANGED <<now, session_dicts, OAUTH_STATE_STORE, issued, spent>>
    /\ UNCHANGED_DB

\* session = SESSION_STORE.get(session_id) of exchange_code_for_token, then
\* the POST to the provider is sent.
ExchangeLookup(t) ==
    /\ pc[t] = "cb_exchange"
    /\ LET r == req[t] IN
       IF r.id \notin SESSION_STORE
       THEN Return(t, r.call, "SessionExpired")
       ELSE Continue(t, "cb_post", r)
    /\ UNCHANGED auth_vars
    /\ UNCHANGED_DB

ExchangeOutcomes == {"unreachable", "declined", "no_token", "granted"}

\* The error_description of the provider's answer: absent or empty, or given.
Descriptions == {"", "bad_verification_code"}

\* A failure recorded with what the provider said and no default.
OrDefaultDropped(detail, default) == detail

\* detail or "GitHub declined the authorization request"
OrDefault(detail, default) == IF detail = "" THEN default ELSE detail

\* What _set_session_error is to record and the callback to answer.
Failure(r, message, result) ==
    [call |-> r.call, id |-> r.id, message |-> message, result |-> result]

\* The provider's answer to the token exchange.
ExchangeResponse(t, outcome, detail) ==
    /\ pc[t] = "cb_post"
    /\ LET r == req[t] IN
       CASE outcome = "unreachable" ->
              Continue(t, "cb_set_error",
                  Failure(r, "Failed to reach GitHub for token exchange",
                          "UpstreamUnavailable"))
         [] outcome = "declined" ->
              Continue(t, "cb_set_error",
                  Failure(r, OrDefault(detail, "GitHub declined the authorization request"),
                          "ProviderRejected"))
         [] outcome = "no_token" ->
              Continue(t, "cb_set_error",
                  Failure(r, OrDefault(detail, "Missing access token in GitHub response"),
                          "ProviderRejected"))
         [] outcome = "granted" -> Continue(t, "cb_verify", r)
    /\ UNCHANGED auth_vars
    /\ UNCHANGED_DB

\* A _set_session_error that records nothing.
SetStatusErrorSkipped(id) == session_dicts

\* session["status"] = "error"
SetStatusError(id) ==
    [session_dicts EXCEPT ![id] = [@ EXCEPT !.status = "error"]]

\* _set_session_error: the lookup and the status.
SetSessionError(t) ==
    /\ pc[t] = "cb_set_error"
    /\ LET r == req[t] IN
       IF r.id \notin SESSION_STORE
       THEN /\ Return(t, r.call, r.result)
            /\ UNCHANGED session_dicts
       ELSE /\ session_dicts' = SetStatusError(r.id)
            /\ Continue(t, "cb_error_message", r)
    /\ UNCHANGED <<now, SESSION_STORE, OAUTH_STATE_STORE, issued, spent>>
    /\ UNCHANGED_DB

\* session["error_message"] = message; the HTTPException goes to the caller.
SetErrorMessage(t) ==
    /\ pc[t] = "cb_error_message"
    /\ LET r == req[t] IN
       /\ session_dicts' =
             [session_dicts EXCEPT ![r.id] = [@ EXCEPT !.error_message = r.message]]
       /\ Return(t, r.call, r.result)
    /\ UNCHANGED <<now, SESSION_STORE, OAUTH_STATE_STORE, issued, spent>>
    /\ UNCHANGED_DB

\* verify_access_token: the provider names the user or rejects the token;
\* the router hands an HTTPException to fail_session.
VerifyResponse(t, outcome) ==
    /\ pc[t] = "cb_verify"
    /\ LET r == req[t] IN
       IF outcome = "rejected"
       THEN Continue(t, "cb_set_error",
                     Failure(r, "Invalid GitHub access token", "InvalidCredential"))
       ELSE Continue(t, "cb_user", [call |-> r.call, id |-> r.id, user |-> outcome])
    /\ UNCHANGED auth_vars
    /\ UNCHANGED_DB

\* get_or_create_user: the query.
GetOrCreateUser(t) ==
    /\ pc[t] = "cb_user"
    /\ LET r == req[t] IN
       IF r.user \in users
       THEN Continue(t, "cb_complete", r)
       ELSE Continue(t, "cb_user_commit", r)
    /\ UNCHANGED auth_vars
    /\ UNCHANGED_DB

\* get_or_create_user: the commit of the new User row; the IntegrityError of
\* a lost race is an "Unexpected error during login".
GetOrCreateUserCommit(t) ==
    /\ pc[t] = "cb_user_commit"
    /\ LET r == req[t] IN
       IF r.user \in users
       THEN /\ Continue(t, "cb_set_error",
                        Failure(r, "Unexpected error during login", "ServerError"))
            /\ UNCHANGED_DB
       ELSE /\ users' = users \cup {r.user}
            /\ revoked' = {}
            /\ UNCHANGED <<secrets, shares>>
            /\ Continue(t, "cb_complete", r)
    /\ UNCHANGED auth_vars

\* complete_session: the lookup (404 when the session is gone, handed to
\* fail_session like any HTTPException), get_or_create_user finding the row
\* that exists by now, and session["status"] = "ready".
CompleteSession(t) ==
    /\ pc[t] = "cb_complete"
    /\ LET r == req[t] IN
       IF r.id \notin SESSION_STORE
       THEN /\ Continue(t, "cb_set_error",
                        Failure(r, "Login session not found or expired", "NotFound"))
            /\ UNCHANGED session_dicts
       ELSE /\ session_dicts' =
                  [session_dicts EXCEPT ![r.id] = [@ EXCEPT !.status = "ready"]]
            /\ Continue(t, "cb_token", r)
    /\ UNCHANGED <<now, SESSION_STORE, OAUTH_STATE_STORE, issued, spent>>
    /\ UNCHANGED_DB

\* session["token"] = {...}; the callback answers "Authentication Complete".
CompleteToken(t) ==
    /\ pc[t] = "cb_token"
    /\ LET r == req[t] IN
       /\ session_dicts' =
             [session_dicts EXCEPT ![r.id] = [@ EXCEPT !.token = Token(r.user)]]
       /\ Return(t, r.call, "ok")
    /\ UNCHANGED <<now, SESSION_STORE, OAUTH_STATE_STORE, issued, spent>>
    /\ UNCHANGED_DB

\* Time passes.
Tick(instants) ==
    /\ \E i \in instants : i > now
    /\ now' = CHOOSE i \in instants : i > now /\ \A j \in instants : j > now => i <= j
    /\ ret' = NoRet
    /\ UNCHANGED <<pc, req, SESSION_STORE, session_dicts, OAUTH_STATE_STORE, issued, spent>>
    /\ UNCHANGED TOKEN_FILE
    /\ UNCHANGED_DB

\* The logins that returned to their client: storing the state token is the
\* last thing initiate_login does, and a state token leaves the store only
\* into spent.
Returned == DOMAIN OAUTH_STATE_STORE \cup spent

\* What a client can present as a state token or poll as a session id: what
\* a login returned to it, or 0, which no login ever generates.  (The real
\* tokens are random: none is guessed before it is issued.)
Presented == {0} \cup Returned

\* A request arrives and its handler starts on thread t.
AuthBegin(t) ==
    \/ LoginBegin(t)
    \/ \E id \in Presented : PollBegin(t, id)
    \/ \E st \in Presented : CallbackBegin(t, st)

\* The handler running on thread t goes on.
AuthGoOn(t) ==
    \/ LoginSweepStates(t)
    \/ LoginSweepSessions(t)
    \/ LoginInsertSession(t)
    \/ LoginInsertState(t)
    \/ PollSweep(t)
    \/ PollLookup(t)
    \/ PollStatus(t)
    \/ PollTake(t)
    \/ ValidateSession(t)
    \/ ValidateSweepStates(t)
    \/ ValidateSweepSessions(t)
    \/ ExchangeLookup(t)
    \/ \E outcome \in ExchangeOutcomes, detail \in Descriptions :
          ExchangeResponse(t, outcome, detail)
    \/ SetSessionError(t)
    \/ SetErrorMessage(t)
    \/ \E outcome \in {"rejected"} \cup GitHubIds : VerifyResponse(t, outcome)
    \/ GetOrCreateUser(t)
    \/ GetOrCreateUserCommit(t)
    \/ CompleteSession(t)
    \/ CompleteToken(t)

AuthStep(t) ==
    \/ AuthBegin(t)
    \/ AuthGoOn(t)

\* The login handlers on the thread pool, interleaved at every operation on
\* the shared dicts.
AuthNext ==
    \/ \E t \in Threads : AuthStep(t)
    \/ Tick(RaceInstants)

AuthSpec == Init /\ [][AuthNext]_vars

\* One login request at a time.
AuthSeqNext ==
    \/ AuthStep(1)
    \/ Tick(Instants)

AuthSeqSpec == Init /\ [][AuthSeqNext]_vars

\* The positions of a callback after its pop of the state token.
ValidationLabels == {"cb_session", "cb_scan_states", "cb_scan_sessions"}
CallbackLabels ==
    ValidationLabels \cup
    {"cb_exchange", "cb_post", "cb_verify", "cb_user", "cb_user_commit",
     "cb_complete", "cb_token", "cb_set_error", "cb_error_message"}

Alone(t) == \A u \in Threads \ {t} : pc[u] = "idle"

\* A callback arrives with the state token of a callback that is running.
Replay(t) ==
    \E u \in Threads \ {t} :
        pc[u] \in CallbackLabels /\ CallbackBegin(t, req[u].call.id)

\* Requests one at a time, except callbacks that present the same state
\* token: those run concurrently.
ReplayNext ==
    \/ \E t \in Threads : Alone(t) /\ AuthBegin(t)
    \/ \E t \in Threads : AuthGoOn(t)
    \/ \E t \in Threads : Replay(t)
    \/ Tick(Instants)

ReplaySpec == Init /\ [][ReplayNext]_vars

\* ====================================================== identity verifier
\* JSON values as Python reads them: [t |-> type, v |-> text].  The user
\* object of a response is held by the text of its "id".
Null == [t |-> "null", v |-> ""]
Absent == [t |-> "absent", v |-> ""]
JStr(s) == [t |-> "str", v |-> s]
JInt(digits) == [t |-> "int", v |-> digits]
JDict(id) == [t |-> "dict", v |-> id]

\* bool(x): None, "" and 0 are false
Truthy(j) ==
    CASE j.t \in {"null", "absent"} -> FALSE
      [] j.t = "str" -> j.v # ""
      [] j.t = "int" -> j.v # "0"
      [] OTHER -> TRUE

\* d.get(k)
Get(d, k) == IF k \in DOMAIN d THEN d[k] ELSE Null

\* a or b
Or(a, b) == IF Truthy(a) THEN a ELSE b

\* str(x)
Str(j) == IF j.t = "null" THEN "None" ELSE j.v

\* --------------------------------------------------------------- strings
\* str.lower(), on the letters the headers are written with
LowerChar(c) ==
    CASE c = "B" -> "b" [] c = "E" -> "e" [] c = "A" -> "a" [] c = "R" -> "r"
      [] OTHER -> c

RECURSIVE Lower(_)
Lower(s) ==
    IF s = "" THEN "" ELSE LowerChar(SubSeq(s, 1, 1)) \o Lower(SubSeq(s, 2, Len(s)))

\* str.startswith(prefix)
StartsWith(s, prefix) == Len(s) >= Len(prefix) /\ SubSeq(s, 1, Len(prefix)) = prefix

\* str.split(" ", 1)[1] of a string that has a space: what follows the
\* first one
AfterFirstSpace(s) ==
    LET i == CHOOSE i \in 1 .. Len(s) :
                SubSeq(s, i, i) = " " /\ \A j \in 1 .. i - 1 : SubSeq(s, j, j) # " "
    IN SubSeq(s, i + 1, Len(s))

\* A strip that leaves its string alone.
StripNothing(s) == s

\* str.strip()
RECURSIVE Strip(_)
Strip(s) ==
    IF s = "" THEN ""
    ELSE IF SubSeq(s, 1, 1) = " " THEN Strip(SubSeq(s, 2, Len(s)))
    ELSE IF SubSeq(s, Len(s), Len(s)) = " " THEN Strip(SubSeq(s, 1, Len(s) - 1))
    ELSE s

\* ---------------------------------------------------------------- inputs
\* request.headers.get("Authorization")
NoHeader == [given |-> FALSE, text |-> ""]
Header(text) == [given |-> TRUE, text |-> text]
Headers ==
    {NoHeader, Header(""), Header("Bearer"), Header("Bearer "), Header("Bearer  "),
     Header("Basic gho"), Header("Bearer gho"), Header("bearer  gho ")}

\* The token of a POST /auth/login-test, and GH_ACCESS_TOKEN of the CLI.
PersonalTokens == {"", "ghp"}
EnvTokens == {" ", " ghp "}

\* The "id" of the profile that the provider returns with a 200.
ProfileIds == {Absent, Null, JStr(""), JInt("42")}

\* What a GET of GITHUB_USER_API comes back with: httpx.HTTPError, or a
\* response with its status code and, on 200, its profile.
Unreachable == [reached |-> FALSE, status |-> 0, id |-> Absent]
Answer(status, id) == [reached |-> TRUE, status |-> status, id |-> id]
ProviderAnswers ==
    {Unreachable} \cup {Answer(status, Absent) : status \in {401, 403}}
                  \cup {Answer(200, id) : id \in ProfileIds}

\* ------------------------------------------------------------- responses
NoData == [k \in {} |-> Null]
Failed(status) == [status |-> status, user_id |-> "", data |-> NoData]
NoResponse == Failed("none")

\* What a handler that verifies a credential keeps while it runs.
Request(op, header, token, token_kind) ==
    [call |-> [op |-> op, arg |-> header], token |-> token, kind |-> token_kind,
     schemes |-> <<>>, calls |-> <<>>, profile |-> Absent, user |-> "",
     response |-> NoResponse]

VerifierResponse(r, result) ==
    [op |-> r.call.op, arg |-> r.call.arg, kind |-> r.kind,
     result |-> result, calls |-> r.calls]

\* The handler returns or raises: the server answers its client.  The CLI
\* goes on with the response it was waiting for.
Answered(t, r, result) ==
    IF r.call.op = "cli_login"
    THEN Continue(t, "cli_response", [r EXCEPT !.response = result])
    ELSE /\ pc' = [pc EXCEPT ![t] = "idle"]
         /\ req' = [req EXCEPT ![t] = NoReq]
         /\ ret' = VerifierResponse(r, result)
         /\ UNCHANGED TOKEN_FILE

\* ------------------------------------------------------------ parse_token
\* not auth_header or not auth_header.lower().startswith("bearer ")
HeaderMalformed(auth_header) ==
    \/ ~auth_header.given
    \/ auth_header.text = ""
    \/ ~StartsWith(Lower(auth_header.text), "bearer ")

ParseToken(t, auth_header) ==
    /\ pc[t] = "idle"
    /\ LET r == Request("parse_token", auth_header, "", "oauth") IN
       IF HeaderMalformed(auth_header)
       THEN Answered(t, r, Failed("MissingCredential"))
       ELSE LET token == Strip(AfterFirstSpace(auth_header.text)) IN
            IF token = ""
            THEN Answered(t, r, Failed("MissingCredential"))
            ELSE Continue(t, "fetch_call", [r EXCEPT !.token = token])
    /\ UNCHANGED auth_vars
    /\ UNCHANGED_DB

\* ----------------------------------------------- login_with_personal_token
LoginTest(t, token) ==
    /\ pc[t] = "idle"
    /\ LET r == Request("login_test", Header(token), token, "pat") IN
       IF token = ""
       THEN Answered(t, r, Failed("TokenRequired"))
       ELSE Continue(t, "fetch_call", r)
    /\ UNCHANGED auth_vars
    /\ UNCHANGED_DB

\* ------------------------------------------------------ fetch_github_user
\* A verifier that knows the Bearer scheme only.
SchemesBearerOnly(token_kind) == <<"Bearer">>

\* schemes = ("token", "Bearer") if token_kind == "pat" else ("Bearer",)
Schemes(token_kind) ==
    IF token_kind = "pat" THEN <<"token", "Bearer">> ELSE <<"Bearer">>

\* A verifier that takes every failure for an unauthorized response.
FetchFailureAlways401(last) == "InvalidCredential"

\* After the loop: 401 if the last response was a 401, else 502.
FetchFailure(last) ==
    IF last.status = 401 THEN "InvalidCredential" ELSE "UpstreamUnavailable"

\* One turn of the loop: the next scheme is tried and the provider answers.
FetchCall(t, answer) ==
    /\ pc[t] = "fetch_call"
    /\ LET r == req[t]
           n == Len(r.calls) + 1
           scheme == Schemes(r.kind)[n]
           called == [r EXCEPT !.calls = Append(@, [scheme |-> scheme, answer |-> answer])]
       IN IF ~answer.reached
          THEN Answered(t, called, Failed("UpstreamUnavailable"))
          ELSE IF answer.status = 200
          THEN Continue(t, "verify_id", [called EXCEPT !.profile = answer.id])
          ELSE IF answer.status = 401 /\ n < Len(Schemes(r.kind))
          THEN Continue(t, "fetch_call", called)
          ELSE Answered(t, called, Failed(FetchFailure(answer)))
    /\ UNCHANGED auth_vars
    /\ UNCHANGED_DB

\* ---------------------------------------------------- verify_access_token
\* if "id" not in user: 502; else the identity with id str(user["id"])
VerifyIdentity(t) ==
    /\ pc[t] = "verify_id"
    /\ LET r == req[t] IN
       IF r.profile = Absent
       THEN Answered(t, r, Failed("UpstreamUnavailable"))
       ELSE Continue(t, "authn_user", [r EXCEPT !.user = Str(r.profile)])
    /\ UNCHANGED auth_vars
    /\ UNCHANGED_DB

\* The payload of login_with_personal_token.
Session(token, user) ==
    [access_token |-> JStr(token), token_type |-> JStr("bearer"),
     scope |-> JStr(""), user |-> JDict(user)]

\* What the handler returns once the User row exists.
Authenticated(r) ==
    IF r.call.op = "parse_token"
    THEN [status |-> "ok", user_id |-> r.user, data |-> NoData]
    ELSE [status |-> "ok", user_id |-> "", data |-> Session(r.token, r.user)]

\* get_or_create_user of parse_token and login_with_personal_token: the
\* query.
EnsureUser(t) ==
    /\ pc[t] = "authn_user"
    /\ LET r == req[t] IN
       IF r.user \in users
       THEN Answered(t, r, Authenticated(r))
       ELSE Continue(t, "authn_user_commit", r)
    /\ UNCHANGED auth_vars
    /\ UNCHANGED_DB

\* A get_or_create_user that never inserts.
EnsureUserRowsNone(user) == users

\* session.add(User(github_id=ext_user_id)), flushed and committed
EnsureUserRows(user) == users \cup {user}

\* get_or_create_user: the commit of the new User row.  The IntegrityError
\* of a lost race leaves the handler as an unexpected exception: a 500.
EnsureUserCommit(t) ==
    /\ pc[t] = "authn_user_commit"
    /\ LET r == req[t] IN
       IF r.user \in users
       THEN /\ Answered(t, r, Failed("ServerError"))
            /\ UNCHANGED_DB
       ELSE /\ users' = EnsureUserRows(r.user)
            /\ revoked' = {}
            /\ UNCHANGED <<secrets, shares>>
            /\ Answered(t, r, Authenticated(r))
    /\ UNCHANGED auth_vars

\* ------------------------------------------------------------- CLI: login
\* The CLI command ends with an exit code.
Exit(t, r, code) ==
    /\ pc' = [pc EXCEPT ![t] = "idle"]
    /\ req' = [req EXCEPT ![t] = NoReq]
    /\ ret' = [op |-> r.call.op, arg |-> r.call.arg, kind |-> r.kind,
               result |-> [exit |-> code], calls |-> r.calls]

\* _write_token
Written(token, github_id) ==
    [exists |-> TRUE, loads |-> "object", access_token |-> token,
     github_id |-> github_id]

\* `login` with GH_ACCESS_TOKEN set: the token file is unlinked, the token
\* is stripped and posted to /auth/login-test, where
\* login_with_personal_token begins.
CliLogin(t, gh_access_token) ==
    /\ pc[t] = "idle"
    /\ TOKEN_FILE' = NoFile
    /\ LET access_token == Strip(gh_access_token)
           r == Request("cli_login", Header(gh_access_token), access_token, "pat")
       IN IF access_token = ""
          THEN Exit(t, r, 1)
          ELSE /\ pc' = [pc EXCEPT ![t] = "fetch_call"]
               /\ req' = [req EXCEPT ![t] = r]
               /\ ret' = NoRet
    /\ UNCHANGED auth_vars
    /\ UNCHANGED_DB

\* github_id = data.get("github_id") or data.get("user_id")
GithubId(data) == Or(Get(data, "github_id"), Get(data, "user_id"))

\* _login_with_access_token after the POST: raise_for_status, the fields
\* of the response, _write_token.
CliLoginResponse(t) ==
    /\ pc[t] = "cli_response"
    /\ LET r == req[t]
           data == r.response.data
           token == Or(Get(data, "access_token"), Get(data, "token"))
           github_id == GithubId(data)
       IN IF r.response.status # "ok"
          THEN Exit(t, r, 1) /\ UNCHANGED TOKEN_FILE
          ELSE IF ~Truthy(token) \/ ~Truthy(github_id)
          THEN Exit(t, r, 1) /\ UNCHANGED TOKEN_FILE
          ELSE Exit(t, r, 0) /\ TOKEN_FILE' = Written(token, github_id)
    /\ UNCHANGED auth_vars
    /\ UNCHANGED_DB

\* A request that carries a credential arrives, or the CLI is run.
VerifyBegin(t) ==
    \/ \E auth_header \in Headers : ParseToken(t, auth_header)
    \/ \E token \in PersonalTokens : LoginTest(t, token)
    \/ \E gh_access_token \in EnvTokens : CliLogin(t, gh_access_token)

VerifyStep(t) ==
    \/ VerifyBegin(t)
    \/ \E answer \in ProviderAnswers : FetchCall(t, answer)
    \/ VerifyIdentity(t)
    \/ EnsureUser(t)
    \/ EnsureUserCommit(t)
    \/ CliLoginResponse(t)

\* The handlers that verify a credential, on the thread pool, and the CLI.
VerifyNext == \E t \in Threads : VerifyStep(t)

VerifySpec == Init /\ [][VerifyNext]_vars

\* Every way to authenticate, one request at a time: the redirect login,
\* the bearer header, the personal token.
SignInNext ==
    \/ AuthStep(1)
    \/ VerifyStep(1)
    \/ Tick(RaceInstants)

SignInSpec == Init /\ [][SignInNext]_vars

\* ------------------------------------------------------------ CLI: logout
\* What ~/.token can hold when a command starts: nothing, what _write_token
\* wrote, an object without "github_id", a text that is not JSON (an empty
\* file), a JSON number.
TokenFiles ==
    {NoFile,
     Written(JStr("gho"), JStr("42")),
     Written(JStr("gho"), Absent),
     [NoFile EXCEPT !.exists = TRUE, !.loads = "JSONDecodeError"],
     [NoFile EXCEPT !.exists = TRUE, !.loads = "int"]}

\* The file is the user's: between two commands anything may rewrite it.
Edited(file) ==
    /\ \A t \in Threads : pc[t] = "idle"
    /\ TOKEN_FILE # file
    /\ TOKEN_FILE' = file
    /\ ret' = NoRet
    /\ UNCHANGED <<pc, req>>
    /\ UNCHANGED auth_vars
    /\ UNCHANGED_DB

\* _load_token: None, the data, or the TypeError of `in` on a number.
None == [loaded |-> "None"]
LoadToken(file) ==
    IF ~file.exists THEN None
    ELSE IF file.loads = "JSONDecodeError" THEN None
    ELSE IF file.loads = "int" THEN [loaded |-> "TypeError"]
    ELSE IF file.access_token = Absent \/ file.github_id = Absent THEN None
    ELSE [loaded |-> "data"]

\* What `logout` does to the file: it stays unless token_data is the data.
LogoutKeeps(file, token_data) == file.exists /\ token_data.loaded # "data"

\* `logout`
Logout(t) ==
    /\ pc[t] = "idle"
    /\ LET token_data == LoadToken(TOKEN_FILE)
           r == Request("logout", TOKEN_FILE, "", "file")
       IN /\ TOKEN_FILE' = IF LogoutKeeps(TOKEN_FILE, token_data) THEN TOKEN_FILE ELSE NoFile
          /\ Exit(t, r, IF token_data.loaded = "TypeError" THEN 1 ELSE 0)
    /\ UNCHANGED auth_vars
    /\ UNCHANGED_DB

\* The CLI's commands, one at a time, against the server's verifier.
CliNext ==
    \/ VerifyStep(1)
    \/ Logout(1)
    \/ \E file \in TokenFiles : Edited(file)

CliSpec == Init /\ [][CliNext]_vars

\* ------------------------------------------------- CLI: login by redirect
\* `login` without GH_ACCESS_TOKEN is one process, c; its requests are
\* handled by the server one at a time on thread s, like the callback that
\* the browser sends.
\* What _start_login and _poll_login keep while they run.
Poller(session_id, deadline, pending_notice_shown) ==
    [call |-> [op |-> "cli_redirect", id |-> session_id], deadline |-> deadline,
     pending_notice_shown |-> pending_notice_shown]

\* The command ends: what it echoed last and its exit code.
PollerExit(c, r, echo, code) ==
    /\ pc' = [pc EXCEPT ![c] = "idle"]
    /\ req' = [req EXCEPT ![c] = NoReq]
    /\ ret' = AuthResponse(r.call, [exit |-> code, echo |-> echo])

PollerGoes(c, label, r) ==
    /\ pc' = [pc EXCEPT ![c] = label]
    /\ req' = [req EXCEPT ![c] = r]
    /\ ret' = NoRet
    /\ UNCHANGED TOKEN_FILE

\* login: the token file is unlinked; _start_login is about to POST
\* /auth/login.
CliRedirectLogin(c) ==
    /\ pc[c] = "idle"
    /\ issued < MaxLogins
    /\ TOKEN_FILE' = NoFile
    /\ pc' = [pc EXCEPT ![c] = "cli_post"]
    /\ req' = [req EXCEPT ![c] = Poller(0, 0, FALSE)]
    /\ ret' = NoRet
    /\ UNCHANGED auth_vars
    /\ UNCHANGED_DB

\* The server takes the POST /auth/login of the CLI.
CliPost(c, s) == pc[c] = "cli_post" /\ LoginBegin(s)

\* _start_login after the POST: raise_for_status, session_id, and the first
\* statement of _poll_login, deadline = time.time() + SESSION_TTL_SECONDS
\* (cli.py:15, the value of the server's).
CliStarted(c) ==
    /\ pc[c] = "cli_post"
    /\ ret.op = "login"
    /\ IF ret.result.status # "ok"
       THEN PollerExit(c, req[c], "HTTPStatusError", 1) /\ UNCHANGED TOKEN_FILE
       ELSE PollerGoes(c, "cli_loop",
                       Poller(ret.result.session_id, now + SESSION_TTL_SECONDS, FALSE))
    /\ UNCHANGED auth_vars
    /\ UNCHANGED_DB

\* while time.time() < deadline: time.sleep(POLL_INTERVAL_SECONDS), then the
\* GET is about to be sent; after the loop "Login timed out".
CliLoop(c) ==
    /\ pc[c] = "cli_loop"
    /\ IF now < req[c].deadline
       THEN PollerGoes(c, "cli_get", req[c])
       ELSE /\ PollerExit(c, req[c], "Login timed out. Please start a new login session.", 1)
            /\ UNCHANGED TOKEN_FILE
    /\ UNCHANGED auth_vars
    /\ UNCHANGED_DB

\* The server takes the GET /auth/login/{session_id} of the CLI.
CliGet(c, s) == pc[c] = "cli_get" /\ PollBegin(s, req[c].call.id)

\* response.status_code of router.poll_login
PollStatusCode(result) ==
    CASE result.status \in {"pending", "ready", "error"} -> "200"
      [] result.status = "not_found" -> "404"
      [] OTHER -> "500"

\* response.json() of a 200
PollData(result) ==
    CASE result.status = "ready" ->
           [k \in {"status", "token"} |->
               IF k = "status" THEN JStr("ready")
               ELSE IF result.token = NoToken THEN Null ELSE JDict(result.token.user)]
      [] result.status = "error" ->
           [k \in {"status", "message"} |->
               IF k = "status" THEN JStr("error") ELSE JStr(result.message)]
      [] OTHER -> [k \in {"status"} |-> JStr(result.status)]

\* _poll_login after the GET.
CliPolled(c) ==
    /\ pc[c] = "cli_get"
    /\ ret.op = "poll"
    /\ LET r == req[c]
           status_code == PollStatusCode(ret.result)
           data == PollData(ret.result)
           token == Or(Get(data, "access_token"), Get(data, "token"))
           github_id == GithubId(data)
       IN IF status_code = "200"
          THEN IF ~Truthy(token) \/ ~Truthy(github_id)
               THEN PollerGoes(c, "cli_loop", [r EXCEPT !.pending_notice_shown = TRUE])
               ELSE /\ TOKEN_FILE' = Written(token, github_id)
                    /\ PollerExit(c, r, "Logged in", 0)
          ELSE IF status_code = "404"
          THEN /\ PollerExit(c, r, "Login session is no longer valid. Please run login again.", 1)
               /\ UNCHANGED TOKEN_FILE
          ELSE PollerGoes(c, "cli_loop", r)
    /\ UNCHANGED auth_vars
    /\ UNCHANGED_DB

\* The response of the server goes to the CLI, which waits for it.
Delivered == ret.op \in {"login", "poll"}

\* The redirect login of one CLI: its requests, the callback of the browser
\* it opened, and the clock.
RedirectNext ==
    \/ CliStarted(2)
    \/ CliPolled(2)
    \/ ~Delivered /\ CliRedirectLogin(2)
    \/ ~Delivered /\ CliPost(2, 1)
    \/ ~Delivered /\ CliLoop(2)
    \/ ~Delivered /\ CliGet(2, 1)
    \/ ~Delivered /\ \E st \in Presented : CallbackBegin(1, st)
    \/ ~Delivered /\ AuthGoOn(1)
    \/ ~Delivered /\ Tick(Instants)

RedirectSpec == Init /\ [][RedirectNext]_vars

\* The repository under requests made one after another, each of which
\* authenticates first or is a login with a personal token.
RepositoryNext ==
    \/ Step(1, RaceUsers, RaceKeys)
    \/ VerifyStep(1)

RepositorySpec == Init /\ [][RepositoryNext]_vars

\* ================================================================ claims
\* Vocabulary of the claims, stated on the tables themselves.
Owns(u, k) == \E s \in secrets : s.owner_id = u /\ s.key = k
Granted(u, s) == \E sh \in shares : sh.secret_id = s.id /\ sh.user_id = u
GrantedKey(u, k) == \E s \in secrets : s.key = k /\ Granted(u, s)
GrantCount(s, u) ==
    Cardinality({sh \in shares : sh.secret_id = s.id /\ sh.user_id = u})
RetCall(r) == Call(r.op, r.caller, r.key, r.arg)

\* The requests whose handler body runs in this step: the body either
\* returned at once (no thread moved) or left its thread waiting for a commit
\* or for its second query.
Began ==
    IF pc' = pc
    THEN IF ret'.op = "none" THEN {} ELSE {RetCall(ret')}
    ELSE {req'[t].call : t \in {x \in Threads : pc[x] = "idle" /\ pc'[x] # "idle"}}

TablesUnchanged == UNCHANGED <<users, secrets, shares>>

\* ---- C1: in every reachable state, under any interleaving of Put, Share
\* and Delete requests, no owner has two Secret rows with the same key.
C1_UniqueOwnerKey ==
    \A s, t \in secrets : (s.owner_id = t.owner_id /\ s.key = t.key) => s.id = t.id

\* A put that raced with another put of the same (owner, key) and lost.
C1_Witness ==
    /\ ret.op = "put"
    /\ ret.result = "IntegrityError"
    /\ \E s \in secrets :
          s.owner_id = ret.caller /\ s.key = ret.key /\ s.value # ret.arg

C3_GetOnlyVisible ==
    (ret.op = "get" /\ ret.result # NoSecret) =>
        /\ ret.result \in secrets
        /\ ret.result.key = ret.key
        /\ \/ ret.result.owner_id = ret.caller
           \/ Granted(ret.caller, ret.result)

\* Get returned a shared secret while the caller also holds a grant on a
\* secret with another key.
C3_Witness ==
    /\ ret.op = "get"
    /\ ret.result # NoSecret
    /\ ret.result.owner_id # ret.caller
    /\ \E t \in secrets : t.key # ret.key /\ Granted(ret.caller, t)

\* ---- C4 (as claimed): whenever secret S is shared to U, Get(U, S.key)
\* returns S itself.
C4_Original ==
    ret.op = "get" =>
        \A s \in secrets :
            (s.key = ret.key /\ Granted(ret.caller, s)) => ret.result = s

\* ---- C4 (amended): whenever secret S is shared to U, U owns no secret with
\* S.key and no other secret with that key is shared to U, Get(U, S.key)
\* returns S itself, with S's value and owner.
C4_GetReturnsShared ==
    ret.op = "get" =>
        \A s \in secrets :
            (/\ s.key = ret.key
             /\ Granted(ret.caller, s)
             /\ ~Owns(ret.caller, ret.key)
             /\ \A t \in secrets :
                   (t.key = ret.key /\ Granted(ret.caller, t)) => t = s)
            => ret.result = s

\* Get returned the one shared secret while another owner stores the same key.
C4_Witness ==
    /\ ret.op = "get"
    /\ ret.result # NoSecret
    /\ ret.result.owner_id # ret.caller
    /\ \E t \in secrets : t.key = ret.key /\ t # ret.result

\* ---- C5 (as claimed): when S (owner O) is shared to U, Get(U', S.key) is
\* not-found for every U' other than O and U.
C5_Original ==
    ret.op = "get" =>
        \A s \in secrets, u \in Users :
            (/\ s.key = ret.key
             /\ Granted(u, s)
             /\ ret.caller # s.owner_id
             /\ ret.caller # u)
            => ret.result = NoSecret

\* ---- C5 (amended): when S (owner O) is shared to U, Get(U', S.key) is
\* not-found for every U' other than O and U that owns no secret with that
\* key and has no grant on a secret with that key.
C5_OthersNotFound ==
    ret.op = "get" =>
        \A s \in secrets, u \in Users :
            (/\ s.key = ret.key
             /\ Granted(u, s)
             /\ ret.caller # s.owner_id
             /\ ret.caller # u
             /\ ~Owns(ret.caller, ret.key)
             /\ ~GrantedKey(ret.caller, ret.key))
            => ret.result = NoSecret

\* A third user, known to the repository, asked for a shared secret's key
\* and got not-found.
C5_Witness ==
    /\ ret.op = "get"
    /\ ret.result = NoSecret
    /\ ret.caller \in users
    /\ \E s \in secrets, u \in Users :
          /\ s.key = ret.key
          /\ Granted(u, s)
          /\ ret.caller # s.owner_id
          /\ ret.caller # u

\* The step in which delete_secret(O, K) commits.
DeleteCommitted == ret'.op = "delete" /\ ret'.result = "ok"

DeleteRemoves ==
    DeleteCommitted =>
        \A s \in secrets :
            (s.owner_id = ret'.caller /\ s.key = ret'.key) =>
                /\ s \notin secrets'
                /\ \A sh \in shares' : sh.secret_id # s.id

\* Get by a user whose grant the latest delete removed.
GetAfterRevoke ==
    ret.op = "get" /\ [user |-> ret.caller, key |-> ret.key] \in revoked

C6_GetOriginal == GetAfterRevoke => ret.result = NoSecret

C6_GetAmended ==
    (/\ GetAfterRevoke
     /\ ~Owns(ret.caller, ret.key)
     /\ ~GrantedKey(ret.caller, ret.key))
    => ret.result = NoSecret

\* ---- C6 (as claimed): Delete(O,K) removes the secret and every grant on
\* it, and afterwards Get(U,K) is not-found for every U that had a grant.
C6_Original == [][DeleteRemoves /\ C6_GetOriginal']_vars

\* ---- C6 (amended): Delete(O,K) removes the secret and every grant on it,
\* and afterwards Get(U,K) is not-found for every U that had a grant, owns
\* no secret with key K and has no grant on another secret with key K.
C6_DeleteRevokes == [][DeleteRemoves /\ C6_GetAmended']_vars

\* A former grantee asked for the deleted secret's key and got not-found.
C6_Witness ==
    /\ ret.op = "get"
    /\ [user |-> ret.caller, key |-> ret.key] \in revoked
    /\ ret.result = NoSecret

\* ---- C7: a Share(O,K,T) made when the grant already exists (the second
\* of two identical calls) succeeds, changes nothing in the repository and
\* leaves exactly one grant for (secret, T).
C7_ShareIdempotent ==
    [][\A call \in Began, s \in secrets :
          (/\ call.op = "share"
           /\ s.owner_id = call.caller
           /\ s.key = call.key
           /\ Granted(call.arg, s)) =>
             /\ pc' = pc
             /\ ret'.result = "ok"
             /\ TablesUnchanged
             /\ GrantCount(s, call.arg)' = 1]_vars

\* The latest call was a share whose grant is not the newest Share row: the
\* call found the grant in place and returned without inserting.
C7_Witness ==
    /\ ret.op = "share"
    /\ ret.result = "ok"
    /\ \A t \in Threads : pc[t] = "idle"
    /\ \E s \in secrets :
          /\ s.owner_id = ret.caller
          /\ s.key = ret.key
          /\ GrantCount(s, ret.arg) = 1
          /\ \E sh \in shares : sh.secret_id = s.id /\ sh.user_id = ret.arg /\ sh.id = 1
          /\ \E sh \in shares : sh.id = 2

\* ---- C8: in every reachable state, also when Share requests for the same
\* secret and target race, there is at most one Share row per (secret, user).
C8_OneSharePerPair ==
    \A a, b \in shares :
        (a.secret_id = b.secret_id /\ a.user_id = b.user_id) => a.id = b.id

\* ---- C9: Share(C,K,T) by a caller who owns no secret with key K fails,
\* also when C is a grantee of another user's secret with key K (then with
\* "Secret not found for owner"), and creates no grant and no User row.
C9_ShareOwnerOnly ==
    [][\A call \in Began :
          (call.op = "share" /\ ~Owns(call.caller, call.key)) =>
             /\ pc' = pc
             /\ ret'.result \in {"OwnerMissing", "SecretNotFound"}
             /\ (GrantedKey(call.caller, call.key) => ret'.result = "SecretNotFound")
             /\ TablesUnchanged]_vars

\* A grantee tried to share the secret on to a user with no User row.
C9_Witness ==
    /\ ret.op = "share"
    /\ ret.result = "SecretNotFound"
    /\ GrantedKey(ret.caller, ret.key)
    /\ ret.arg \notin users

\* ---- C10: Delete(C,K) by a caller who owns no secret with key K fails
\* with NotFound, also when C is a grantee of another user's secret with
\* key K, and leaves every Secret and every Share row unchanged.
C10_DeleteOwnerOnly ==
    [][\A call \in Began :
          (call.op = "delete" /\ ~Owns(call.caller, call.key)) =>
             /\ pc' = pc
             /\ ret'.result = "NotFound"
             /\ TablesUnchanged]_vars

\* A grantee tried to delete the secret shared to them.
C10_Witness ==
    /\ ret.op = "delete"
    /\ ret.result = "NotFound"
    /\ GrantedKey(ret.caller, ret.key)
    /\ shares # {}

\* ---- C11: the entries List(caller) returns are, as a set, exactly the
\* secrets caller owns together with the secrets shared to caller, each with
\* the secret's key, value and the id of its owner; a secret caller neither
\* owns nor has a grant on is not among them.
C11_ListIsVisibleSet ==
    ret.op = "list" =>
        {ret.result[i] : i \in DOMAIN ret.result} =
            {[key |-> s.key, value |-> s.value, owner_id |-> s.owner_id] :
                s \in {x \in secrets : x.owner_id = ret.caller \/ Granted(ret.caller, x)}}

\* A list that returned an owned secret and one shared by somebody else.
C11_Witness ==
    /\ ret.op = "list"
    /\ \E i, j \in DOMAIN ret.result :
          ret.result[i].owner_id = ret.caller /\ ret.result[j].owner_id # ret.caller

View(u) ==
    [user |-> u \in users,
     owned |-> {s \in secrets : s.owner_id = u},
     shared |-> {[id |-> sh.id, secret |-> s] : <<s, sh>> \in
                   {p \in secrets \X shares :
                       p[2].secret_id = p[1].id /\ p[2].user_id = u}}]

\* The answers a call may give, computed from the caller's view v and from
\* nothing else.
ViewResults(v, call) ==
    LET own == {s \in v.owned : s.key = call.key}
        got == {g.secret : g \in {x \in v.shared : x.secret.key = call.key}}
    IN CASE call.op = "get" ->
              IF ~v.user THEN {NoSecret}
              ELSE IF own # {} THEN own
              ELSE IF got # {} THEN got ELSE {NoSecret}
         [] call.op = "list" ->
              IF ~v.user THEN {<<>>}
              ELSE {Entries(ById(v.owned)) \o JoinedEntries(ById(v.shared))}
         [] call.op = "put" ->
              IF own # {} THEN {"KeyExists"} ELSE {"ok"}
         [] call.op = "share" ->
              IF ~v.user THEN {"OwnerMissing"}
              ELSE IF own = {} THEN {"SecretNotFound"} ELSE {"ok"}
         [] call.op = "delete" ->
              IF ~v.user \/ own = {} THEN {"NotFound"} ELSE {"ok"}

\* ---- C13: the result of a Get, List, Put, Share or Delete by U is fixed by
\* U's view of the repository (U's User row, the secrets U owns, the secrets
\* shared to U), so it is the same in any two states that agree on that view;
\* in particular Get(U,K) answers "nothing" both when nobody owns K and when
\* another user owns K and has not shared it with U.
C13_ResultFromView ==
    [][ret'.op # "none" =>
          ret'.result \in ViewResults(View(ret'.caller), RetCall(ret'))]_vars

\* Get answered "nothing" to a registered caller for a key that another
\* user owns and has not shared with the caller.
C13_Witness ==
    /\ ret.op = "get"
    /\ ret.result = NoSecret
    /\ ret.caller \in users
    /\ \E s \in secrets :
          s.key = ret.key /\ s.owner_id # ret.caller /\ ~Granted(ret.caller, s)

\* Every stored secret and every stored grant names a user with a User row.
NoPartialState ==
    /\ \A s \in secrets : s.owner_id \in users
    /\ \A sh \in shares : sh.user_id \in users

\* ---- C14: a Put, Share or Delete that ends in an error leaves the users,
\* secrets and shares tables exactly as they were, and no state shows a
\* partially applied request: no secret without its owner's User row, no
\* grant to a user without a User row, no User row left by a failing Share.
C14_ErrorsChangeNothing ==
    [][/\ (ret'.op \in {"put", "share", "delete"} /\ ret'.result # "ok")
              => TablesUnchanged
       /\ NoPartialState']_vars

\* A Share that failed for a target who has no User row.
C14_Witness ==
    /\ ret.op = "share"
    /\ ret.result = "SecretNotFound"
    /\ ret.arg \notin users
    /\ ret.caller \in users

\* ------------------------------------------------------------- login flow
\* Vocabulary of the login claims.
Terminal(id) ==
    id \in DOMAIN session_dicts /\ session_dicts[id].status \in {"ready", "error"}

\* What a Poll of session id is to return when the session is ready or error.
Outcome(id) ==
    IF session_dicts[id].status = "ready"
    THEN [status |-> "ready", token |-> session_dicts[id].token]
    ELSE [status |-> "error", message |-> session_dicts[id].error_message]

\* The Poll that thread t is running has swept and goes on to its lookup.
PollSwept(t) == pc[t] = "poll_scan" /\ pc'[t] = "poll_lookup"

\* A Poll that finds the session ready or error returns its result and
\* removes it; a Poll of a session that is not stored returns NotFound; a
\* removed session never comes back.
ConsumingRead ==
    /\ ret'.op = "poll" /\ ret'.id \in SESSION_STORE /\ Terminal(ret'.id)
          => ret'.result = Outcome(ret'.id) /\ ret'.id \notin SESSION_STORE'
    /\ ret'.op = "poll" /\ ret'.id \notin SESSION_STORE
          => ret'.result.status = "not_found"
    /\ \A id \in DOMAIN session_dicts :
          id \notin SESSION_STORE => id \notin SESSION_STORE'

\* ---- C15 (as claimed): the first Poll of a stored session whose status is
\* ready or error returns the result (token bundle or message) and removes
\* the session, and every later Poll of that id returns NotFound.
C15_Original ==
    [][/\ \A t \in Threads :
             (PollSwept(t) /\ req[t].call.id \in SESSION_STORE
                           /\ Terminal(req[t].call.id))
                => req[t].call.id \in SESSION_STORE'
       /\ ConsumingRead]_vars

\* ---- C15 (amended): the first Poll of a stored session whose status is
\* ready or error and whose age at the Poll is at most SESSION_TTL_SECONDS
\* returns the result and removes the session, and every later Poll of that
\* id returns NotFound; an older session is removed by the Poll's sweep and
\* the Poll returns NotFound.
C15_ConsumingPoll ==
    [][/\ \A t \in Threads :
             (PollSwept(t) /\ req[t].call.id \in SESSION_STORE
                           /\ Terminal(req[t].call.id))
                => (req[t].call.id \in SESSION_STORE'
                       <=> req[t].now - session_dicts[req[t].call.id].created_at
                              <= SESSION_TTL_SECONDS)
       /\ ConsumingRead]_vars

\* A later Poll of a session that an earlier Poll consumed while it was
\* ready and not yet SESSION_TTL_SECONDS old: NotFound.
C15_Witness ==
    /\ ret.op = "poll"
    /\ ret.result.status = "not_found"
    /\ ret.id \in DOMAIN session_dicts
    /\ session_dicts[ret.id].status = "ready"
    /\ now - session_dicts[ret.id].created_at <= SESSION_TTL_SECONDS

\* ---- C16: of two Polls that run concurrently on the same ready session at
\* most one returns the token bundle: no Poll returns the token of a session
\* right after another Poll returned the token of that session.
C16_OnePollTakesToken ==
    [][~(/\ ret.op = "poll" /\ ret'.op = "poll"
         /\ ret'.id = ret.id
         /\ ret.result.status = "ready" /\ ret'.result.status = "ready"
         /\ ret'.result.token # NoToken
         /\ ret'.result.token = ret.result.token)]_vars

\* ---- C17: a state token is single-use: the callback that presents it
\* leaves it out of the store whether the validation passed or failed, a
\* token that is out of the store never comes back, and a callback that
\* presents a token that is not in the store fails with InvalidState.
C17_SingleUse ==
    [][/\ (pc' = pc /\ ret'.op = "callback")
             => /\ ret'.result = "InvalidState"
                /\ ret'.id \notin DOMAIN OAUTH_STATE_STORE'
       /\ \A t \in Threads :
             (pc[t] = "idle" /\ pc'[t] = "cb_session")
                => /\ req'[t].call.id \in DOMAIN OAUTH_STATE_STORE
                   /\ req'[t].call.id \notin DOMAIN OAUTH_STATE_STORE'
       /\ \A st \in spent \cup {0} : st \notin DOMAIN OAUTH_STATE_STORE']_vars

\* A callback was refused a token that an earlier callback had used to
\* complete or fail its session, within the token's TTL.
C17_Witness ==
    /\ ret.op = "callback"
    /\ ret.result = "InvalidState"
    /\ ret.id \in spent
    /\ \E id \in DOMAIN session_dicts :
          /\ session_dicts[id].state = ret.id
          /\ Terminal(id)
          /\ now - session_dicts[id].created_at <= STATE_TTL_SECONDS

\* The state token st is in the store and not older than the TTL.
ValidToken(st) ==
    /\ st \in DOMAIN OAUTH_STATE_STORE
    /\ now - OAUTH_STATE_STORE[st].created_at <= STATE_TTL_SECONDS

\* ---- C18: of the callbacks that run concurrently with the same valid state
\* token, exactly one passes state validation and every other one fails with
\* InvalidState: a callback is turned away at its pop only with InvalidState
\* and never when the token is valid; no two running callbacks hold the same
\* token; and the one that holds it leaves _validate_state only by returning
\* the session id to the exchange.
C18_OneCallbackPasses ==
    [][/\ (pc' = pc /\ ret'.op = "callback")
             => ret'.result = "InvalidState" /\ ~ValidToken(ret'.id)
       /\ \A t, u \in Threads :
             (t # u /\ pc'[t] \in CallbackLabels /\ pc'[u] \in CallbackLabels)
                => req'[t].call.id # req'[u].call.id
       /\ \A t \in Threads :
             pc[t] \in ValidationLabels
                => pc'[t] \in ValidationLabels \cup {"cb_exchange"}]_vars

\* A callback was turned away while another callback, which had presented
\* the same token, was past its validation.
C18_Witness ==
    /\ ret.op = "callback"
    /\ ret.result = "InvalidState"
    /\ \E u \in Threads :
          /\ pc[u] \in CallbackLabels \ ValidationLabels
          /\ req[u].call.id = ret.id

\* ---- C19: a login session changes status at most once: it is stored with
\* status pending, and once its status is ready or error no step changes the
\* status again for as long as the session is in the store.
C19_StatusChangesOnce ==
    [][/\ \A id \in DOMAIN session_dicts' \ DOMAIN session_dicts :
             session_dicts'[id].status = "pending"
       /\ \A id \in DOMAIN session_dicts :
             (id \in SESSION_STORE /\ Terminal(id))
                => session_dicts'[id].status = session_dicts[id].status]_vars

\* A stored session that is ready or error, at the return of a callback
\* that presented its state token again.
C19_Witness ==
    /\ ret.op = "callback"
    /\ \E id \in SESSION_STORE :
          session_dicts[id].state = ret.id /\ Terminal(id)
    /\ ret.result = "InvalidState"

\* The session that state token st was issued for is stored, with status
\* error and a message.
ErrorRecorded(st) ==
    \A id \in SESSION_STORE :
        session_dicts[id].state = st
           => /\ session_dicts[id].status = "error"
              /\ session_dicts[id].error_message # NoMessage

\* The session of the token that the callback which just returned presented.
ReturnedRecorded == ErrorRecorded(ret.id)

\* ---- C20: when a callback fails after presenting a state token that was
\* in the store (the token is rejected as older than STATE_TTL_SECONDS, or
\* the exchange or the verification fails later), the session the token was
\* issued for, if it is still stored, has status error and a message when
\* the failure is returned.
C20_FailureRecorded ==
    [][(/\ ret'.op = "callback"
        /\ ret'.result # "ok"
        /\ \/ ret'.id \in DOMAIN OAUTH_STATE_STORE
           \/ \E t \in Threads : pc[t] \in CallbackLabels /\ pc'[t] = "idle")
          => ReturnedRecorded']_vars

\* ---- C21: a callback that presents a state token which is not in the
\* state-token store fails with InvalidState, and its step leaves every
\* login session as it was (stored or not, with the same fields) and every
\* stored state token in place.
C21_UnknownStateChangesNothing ==
    [][(/\ pc' = pc
        /\ ret'.op = "callback"
        /\ ret'.id \notin DOMAIN OAUTH_STATE_STORE)
          => /\ ret'.result = "InvalidState"
             /\ UNCHANGED <<SESSION_STORE, session_dicts, OAUTH_STATE_STORE>>]_vars

\* A callback with a token that no login issued was turned away while a
\* pending session and its state token, by then older than the TTL, were
\* stored.
C21_Witness ==
    /\ ret.op = "callback"
    /\ ret.result = "InvalidState"
    /\ ret.id \notin Returned
    /\ \E id \in SESSION_STORE :
          /\ session_dicts[id].status = "pending"
          /\ session_dicts[id].state \in DOMAIN OAUTH_STATE_STORE
          /\ now - session_dicts[id].created_at > STATE_TTL_SECONDS

\* The provider answers the token exchange of thread t's callback with a
\* non-200 response or with a response that has no access token.
ProviderRejects(t) ==
    \E detail \in Descriptions :
        \/ ExchangeResponse(t, "declined", detail)
        \/ ExchangeResponse(t, "no_token", detail)

\* From the provider's rejection to the callback's answer: the failure is
\* ProviderRejected with a non-empty message, and when the callback returns
\* it the session is stored with status error and that message.
RejectionRecorded ==
    \A t \in Threads :
        /\ ProviderRejects(t)
              => /\ req'[t].result = "ProviderRejected"
                 /\ req'[t].message \notin {"", NoMessage}
        /\ (/\ pc[t] \in {"cb_set_error", "cb_error_message"}
            /\ req[t].result = "ProviderRejected"
            /\ pc'[t] = "idle")
              => /\ ret'.op = "callback"
                 /\ ret'.result = "ProviderRejected"
                 /\ req[t].id \in SESSION_STORE'
                 /\ session_dicts'[req[t].id].status = "error"
                 /\ session_dicts'[req[t].id].error_message = req[t].message

\* A Poll that finds a session with status error returns error with the
\* session's message and removes the session.
ErrorPolled ==
    (/\ ret'.op = "poll"
     /\ ret'.id \in SESSION_STORE
     /\ session_dicts[ret'.id].status = "error")
       => /\ ret'.result =
                [status |-> "error", message |-> session_dicts[ret'.id].error_message]
          /\ ret'.id \notin SESSION_STORE'

\* The Poll of thread t has swept and its session, stored with status
\* error, ...
PollSweptError(t) ==
    /\ PollSwept(t)
    /\ req[t].call.id \in SESSION_STORE
    /\ session_dicts[req[t].call.id].status = "error"

PollOfOld(t) ==
    /\ req[t].call.op = "poll"
    /\ req[t].call.id \in DOMAIN session_dicts
    /\ req[t].now - session_dicts[req[t].call.id].created_at > SESSION_TTL_SECONDS

\* ---- C23: a Poll that begins more than SESSION_TTL_SECONDS after its
\* session was created returns NotFound whatever the session's status and
\* whether or not its result was read (its sweep leaves the session out of
\* the store and its lookup answers NotFound); and a session leaves the
\* store only when it is older than SESSION_TTL_SECONDS or when a Poll that
\* found it ready or error takes it.
C23_SessionTTL ==
    [][/\ \A t \in Threads :
             /\ (pc[t] = "poll_scan" /\ pc'[t] # "poll_scan" /\ PollOfOld(t))
                   => /\ pc'[t] = "poll_lookup"
                      /\ req[t].call.id \notin SESSION_STORE'
             /\ (pc[t] = "poll_lookup" /\ pc'[t] # "poll_lookup" /\ PollOfOld(t))
                   => /\ ret'.op = "poll"
                      /\ ret'.id = req[t].call.id
                      /\ ret'.result.status = "not_found"
       /\ \A id \in SESSION_STORE \ SESSION_STORE' :
             \/ now - session_dicts[id].created_at > SESSION_TTL_SECONDS
             \/ \E t \in Threads :
                   /\ pc[t] = "poll_take" /\ pc'[t] = "idle"
                   /\ req[t].call.id = id /\ Terminal(id)]_vars

\* A Poll was answered NotFound for a session that a callback had made
\* ready and that is older than SESSION_TTL_SECONDS.
C23_Witness ==
    /\ ret.op = "poll"
    /\ ret.result.status = "not_found"
    /\ ret.id \in DOMAIN session_dicts
    /\ session_dicts[ret.id].status = "ready"
    /\ now - session_dicts[ret.id].created_at > SESSION_TTL_SECONDS

\* The callback that presents state token st begins in this step: it is
\* turned away at once or goes on to look for its session.
CallbackBegins(st) ==
    \/ pc' = pc /\ ret'.op = "callback" /\ ret'.id = st
    \/ \E t \in Threads :
          pc[t] = "idle" /\ pc'[t] = "cb_session" /\ req'[t].call.id = st

\* ---- C24: a callback that presents a state token more than
\* STATE_TTL_SECONDS after the token was created fails with InvalidState
\* even though the token is still in the store, a callback that presents a
\* stored token of at most that age is not turned away by the validation of
\* the token, and a token of at most that age leaves the store only by the
\* pop of the callback that presents it.
C24_StateTTL ==
    [][/\ \A t \in Threads :
             (pc[t] = "idle" /\ pc'[t] = "cb_session")
                => ValidToken(req'[t].call.id)
       /\ (pc' = pc /\ ret'.op = "callback")
             => /\ ret'.result = "InvalidState"
                /\ ~ValidToken(ret'.id)
       /\ \A st \in DOMAIN OAUTH_STATE_STORE \ DOMAIN OAUTH_STATE_STORE' :
             \/ now - OAUTH_STATE_STORE[st].created_at > STATE_TTL_SECONDS
             \/ CallbackBegins(st)]_vars

\* After a single login and so without any sweep of the state tokens, a
\* callback was turned away with the token of a session that is still
\* stored and pending, more than STATE_TTL_SECONDS after the login.
C24_Witness ==
    /\ issued = 1
    /\ ret.op = "callback"
    /\ ret.result = "InvalidState"
    /\ ret.id \in spent
    /\ \E id \in SESSION_STORE :
          /\ session_dicts[id].state = ret.id
          /\ session_dicts[id].status = "pending"
          /\ now - session_dicts[id].created_at > STATE_TTL_SECONDS

\* -------------------------------------------------------- identity verifier
\* Vocabulary of the verifier claims.
VerifierOps == {"parse_token", "login_test", "cli_login"}
FetchedLabels == {"verify_id", "authn_user", "authn_user_commit", "cli_response"}
Unauthorized(call) == call.answer.reached /\ call.answer.status = 401
Success(call) == call.answer.reached /\ call.answer.status = 200
Last(calls) == calls[Len(calls)]

\* The calls are those of a credential of this kind: Bearer alone for a
\* delegated one; for a direct one "token" first, and Bearer second only
\* after an unauthorized first response.
FixedOrder(kind, calls) ==
    IF kind = "oauth"
    THEN /\ Len(calls) <= 1
         /\ \A i \in 1 .. Len(calls) : calls[i].scheme = "Bearer"
    ELSE /\ Len(calls) <= 2
         /\ Len(calls) >= 1 => calls[1].scheme = "token"
         /\ Len(calls) = 2 => calls[2].scheme = "Bearer" /\ Unauthorized(calls[1])

\* No call is missing at the end: one was made, and the second one too
\* when the first response to a direct credential was unauthorized.
AllCallsMade(kind, calls) ==
    /\ Len(calls) >= 1
    /\ (kind = "pat" /\ Unauthorized(calls[1])) => Len(calls) = 2

\* ---- C25: the provider calls of a verification are fixed by the kind of
\* the credential: for a delegated credential exactly one call, with scheme
\* Bearer, whatever the response; for a direct credential a first call with
\* scheme "token" and a second call, with scheme Bearer, exactly when the
\* first response was unauthorized (401).
C25_CallsFixedByKind ==
    /\ \A t \in Threads :
          /\ pc[t] = "fetch_call"
                => /\ FixedOrder(req[t].kind, req[t].calls)
                   /\ Len(req[t].calls) < (IF req[t].kind = "pat" THEN 2 ELSE 1)
          /\ pc[t] \in FetchedLabels
                => /\ FixedOrder(req[t].kind, req[t].calls)
                   /\ AllCallsMade(req[t].kind, req[t].calls)
    /\ ret.op \in VerifierOps
          => /\ FixedOrder(ret.kind, ret.calls)
             /\ ret.calls # <<>> => AllCallsMade(ret.kind, ret.calls)
             /\ ret.calls = <<>> =>
                   /\ ret.op = "cli_login" => ret.result.exit = 1
                   /\ ret.op # "cli_login" =>
                         ret.result.status \in {"MissingCredential", "TokenRequired"}

\* A personal token was accepted under the scheme "token": one call.
C25_Witness ==
    /\ ret.op = "login_test"
    /\ ret.result.status = "ok"
    /\ Len(ret.calls) = 1
    /\ ret.calls[1].scheme = "token"
    /\ Success(ret.calls[1])

\* The failure that the claim gives a verification whose last call was not
\* answered with a 200.
ClaimedFailure(calls) ==
    IF Unauthorized(Last(calls)) THEN "InvalidCredential" ELSE "UpstreamUnavailable"

\* ---- C26: fetch_github_user returns the profile of the call that was
\* answered with a 200 (the last one it makes); when no call was answered
\* with a 200 it fails with InvalidCredential if the last call was answered
\* with a 401, and with UpstreamUnavailable if the last call was answered
\* with another status or the provider could not be reached.
C26_ResultByLastResponse ==
    /\ \A t \in Threads :
          /\ pc[t] = "fetch_call"
                => \A i \in 1 .. Len(req[t].calls) : Unauthorized(req[t].calls[i])
          /\ pc[t] = "verify_id"
                => /\ Success(Last(req[t].calls))
                   /\ req[t].profile = Last(req[t].calls).answer.id
          /\ (pc[t] = "cli_response" /\ ~Success(Last(req[t].calls)))
                => req[t].response.status = ClaimedFailure(req[t].calls)
    /\ (ret.op \in {"parse_token", "login_test"} /\ ret.calls # <<>>)
          => /\ \A i \in 1 .. Len(ret.calls) - 1 : ~Success(ret.calls[i])
             /\ ~Success(Last(ret.calls))
                   => ret.result.status = ClaimedFailure(ret.calls)

\* A personal token was refused with a 401 under the first scheme and with
\* a 403 under the second: UpstreamUnavailable.
C26_Witness ==
    /\ ret.op = "login_test"
    /\ Len(ret.calls) = 2
    /\ Unauthorized(ret.calls[1])
    /\ ret.calls[2].answer.reached /\ ret.calls[2].answer.status = 403
    /\ ret.result.status = "UpstreamUnavailable"

\* ---- C27: every identity that verify returns has a non-empty id: a
\* profile whose id is absent, null or empty is never turned into a verified
\* identity, and the verification of a credential that the provider answers
\* with such a profile fails with UpstreamUnavailable.
C27_IdentityHasId ==
    /\ \A t \in Threads :
          pc[t] \in {"authn_user", "authn_user_commit"}
             => /\ req[t].user # ""
                /\ req[t].profile \notin {Absent, Null, JStr("")}
    /\ (/\ ret.op \in {"parse_token", "login_test"}
        /\ ret.calls # <<>>
        /\ Success(Last(ret.calls))
        /\ Last(ret.calls).answer.id \in {Absent, Null, JStr("")})
          => ret.result.status = "UpstreamUnavailable"

\* The header is missing, does not begin with the Bearer scheme and a space,
\* or has nothing but spaces after it.
Malformed(auth_header) ==
    \/ ~auth_header.given
    \/ Len(auth_header.text) < 7
    \/ SubSeq(auth_header.text, 1, 7) \notin {"Bearer ", "bearer "}
    \/ \A i \in 8 .. Len(auth_header.text) : SubSeq(auth_header.text, i, i) = " "

\* ---- C28: an Authorization header that is missing, does not start with
\* the Bearer scheme or carries an empty token makes parse_token fail with
\* MissingCredential: parse_token does not go on to the identity provider
\* with such a header, and the step in which it fails has called no
\* provider and leaves the users table as it was.
C28_MalformedHeaderRejected ==
    [][/\ \A t \in Threads :
             (pc[t] = "idle" /\ pc'[t] # "idle" /\ req'[t].call.op = "parse_token")
                => ~Malformed(req'[t].call.arg)
       /\ (ret'.op = "parse_token" /\ Malformed(ret'.arg))
             => /\ ret'.result.status = "MissingCredential"
                /\ ret'.calls = <<>>
                /\ users' = users]_vars

\* parse_token turned away a header whose token is nothing but a space.
C28_Witness ==
    /\ ret.op = "parse_token"
    /\ ret.arg = Header("Bearer  ")
    /\ ret.result.status = "MissingCredential"
    /\ ret.calls = <<>>

\* Every session with status ready names a user that has a User row; while
\* complete_session is between the status and the token, the user it is
\* about to name has one.
ReadySessionsHaveUsers ==
    \A id \in DOMAIN session_dicts :
        session_dicts[id].status = "ready"
           => \/ session_dicts[id].token.user \in users
              \/ /\ session_dicts[id].token = NoToken
                 /\ \E t \in Threads :
                       pc[t] = "cb_token" /\ req[t].id = id /\ req[t].user \in users

\* ---- C29: when an authentication succeeds (parse_token returns a user
\* id, login_with_personal_token returns its payload, a callback completes
\* its login session) the users table has a row for the verified id; no
\* step removes a User row; and in every state every session with status
\* ready names a user that has a row.
C29_AuthenticatedUserExists ==
    [][/\ (ret'.op = "parse_token" /\ ret'.result.status = "ok")
             => ret'.result.user_id \in users'
       /\ (ret'.op = "login_test" /\ ret'.result.status = "ok")
             => ret'.result.data.user.v \in users'
       /\ (ret'.op = "callback" /\ ret'.result = "ok")
             => \E id \in DOMAIN session_dicts' :
                   /\ session_dicts'[id].state = ret'.id
                   /\ session_dicts'[id].status = "ready"
                   /\ session_dicts'[id].token.user \in users'
       /\ users \subseteq users'
       /\ ReadySessionsHaveUsers']_vars

\* parse_token returned the id of a user it had to create, while a login
\* session completed by a callback is stored with status ready.
C29_Witness ==
    /\ ret.op = "parse_token"
    /\ ret.result.status = "ok"
    /\ ret.result.user_id \in users
    /\ \E id \in SESSION_STORE :
          /\ session_dicts[id].status = "ready"
          /\ session_dicts[id].token.user \in users
          /\ session_dicts[id].token.user # ret.result.user_id

\* ---- C30: when the CLI login command runs with a personal access token
\* and the server accepts the token (answers the POST with a 200), the
\* command succeeds and the token file exists with a non-empty access_token
\* and a non-empty github_id.
C30_CliLoginWritesToken ==
    [][\A t \in Threads :
          (/\ pc[t] = "cli_response"
           /\ req[t].response.status = "ok"
           /\ pc'[t] = "idle")
             => /\ ret'.op = "cli_login"
                /\ ret'.result.exit = 0
                /\ TOKEN_FILE'.exists
                /\ Truthy(TOKEN_FILE'.access_token)
                /\ Truthy(TOKEN_FILE'.github_id)]_vars

\* ---- C31: after the CLI logout command returns, no token file exists,
\* whatever the token file held before (nothing, a valid token, or content
\* the CLI cannot use).
C31_LogoutRemovesFile ==
    [][\A t \in Threads : Logout(t) => ~TOKEN_FILE'.exists]_vars

\* ---- C32: every Poll that returns status ready returns a token bundle that
\* is not None and holds the access token and the verified user, also when
\* the Poll runs between the two writes of complete_session (the status,
\* then the token).
C32_ReadyHasToken ==
    ret.op = "poll" /\ ret.result.status = "ready"
        => /\ ret.result.token # NoToken
           /\ ret.result.token.access_token = "gho"
           /\ ret.result.token.user \in GitHubIds

\* ---- C33: when the caller owns a secret with key K and also holds a grant
\* on another user's secret with key K, Get(caller, K) returns the caller's
\* own secret; Get returns a shared secret only when the caller owns no
\* secret with that key.
C33_OwnBeforeShared ==
    ret.op = "get" =>
        /\ Owns(ret.caller, ret.key)
              => /\ ret.result \in secrets
                 /\ ret.result.key = ret.key
                 /\ ret.result.owner_id = ret.caller
        /\ (ret.result # NoSecret /\ ret.result.owner_id # ret.caller)
              => ~Owns(ret.caller, ret.key)

\* Get returned the caller's own secret while the caller holds a grant on
\* another owner's secret with the same key.
C33_Witness ==
    /\ ret.op = "get"
    /\ ret.result \in secrets
    /\ ret.result.owner_id = ret.caller
    /\ \E s \in secrets :
          /\ s.key = ret.key
          /\ s.owner_id # ret.caller
          /\ Granted(ret.caller, s)

\* The Poll that thread t is running asks for a session that is stored with
\* status pending and that is not older than SESSION_TTL_SECONDS at the time
\* the Poll read.
PollOfPending(t) ==
    /\ pc[t] \in {"poll_scan", "poll_lookup", "poll_status"}
    /\ req[t].call.id \in SESSION_STORE
    /\ session_dicts[req[t].call.id].status = "pending"
    /\ req[t].now - session_dicts[req[t].call.id].created_at <= SESSION_TTL_SECONDS

\* ---- C34: a Poll of an unexpired session whose status is pending returns
\* pending, leaves that session in the store with every field unchanged and
\* leaves the state-token store unchanged; what it removes is nothing that a
\* later callback needs: every session that a stored state token names stays.
C34_PendingPollChangesNothing ==
    [][\A t \in Threads :
          (PollOfPending(t) /\ pc'[t] # pc[t]) =>
              LET id == req[t].call.id IN
              /\ pc'[t] \in {"poll_lookup", "poll_status", "idle"}
              /\ pc'[t] = "idle" =>
                    ret' = AuthResponse(req[t].call, [status |-> "pending"])
              /\ id \in SESSION_STORE'
              /\ session_dicts' = session_dicts
              /\ OAUTH_STATE_STORE' = OAUTH_STATE_STORE
              /\ \A st \in DOMAIN OAUTH_STATE_STORE :
                    (/\ req[t].now - OAUTH_STATE_STORE[st].created_at <= STATE_TTL_SECONDS
                     /\ OAUTH_STATE_STORE[st].session_id \in SESSION_STORE)
                       => OAUTH_STATE_STORE[st].session_id \in SESSION_STORE']_vars

\* A Poll returned pending at a later instant, its session and the state
\* token of that session are still stored, and the Poll swept another
\* session.
C34_Witness ==
    /\ ret.op = "poll"
    /\ ret.result.status = "pending"
    /\ now > 0
    /\ ret.id \in SESSION_STORE
    /\ \E st \in DOMAIN OAUTH_STATE_STORE : OAUTH_STATE_STORE[st].session_id = ret.id
    /\ \E j \in DOMAIN session_dicts \ SESSION_STORE :
          session_dicts[j].status = "pending"

\* ---- C35: after every Initiate executed at time now, the session store
\* holds a new session with status pending, no token and no error message,
\* the state-token store holds a new token that maps to that session, both
\* are stamped with now, and neither store holds an entry whose age at now
\* exceeds its TTL (600 s for sessions, 300 s for state tokens).
C35_InitiatePostState ==
    [][\A t \in Threads :
          /\ pc[t] = "login_insert_session"
                => req[t].call.id \notin DOMAIN session_dicts
          /\ (pc[t] = "login_insert_state" /\ pc'[t] = "idle") =>
                LET r == req[t]
                    id == r.call.id
                IN /\ ret' = AuthResponse(r.call, [status |-> "ok", session_id |-> id,
                                                   state |-> ret'.result.state])
                   /\ id \in SESSION_STORE'
                   /\ session_dicts'[id].status = "pending"
                   /\ session_dicts'[id].token = NoToken
                   /\ session_dicts'[id].error_message = NoMessage
                   /\ session_dicts'[id].created_at = r.now
                   /\ ret'.result.state \notin DOMAIN OAUTH_STATE_STORE \cup spent
                   /\ ret'.result.state \in DOMAIN OAUTH_STATE_STORE'
                   /\ OAUTH_STATE_STORE'[ret'.result.state] =
                         [created_at |-> r.now, session_id |-> id]
                   /\ \A j \in SESSION_STORE' :
                         r.now - session_dicts'[j].created_at <= SESSION_TTL_SECONDS
                   /\ \A st \in DOMAIN OAUTH_STATE_STORE' :
                         r.now - OAUTH_STATE_STORE'[st].created_at <= STATE_TTL_SECONDS]_vars

\* An Initiate returned after it swept a session and a state token of an
\* earlier login.
C35_Witness ==
    /\ ret.op = "login"
    /\ ret.result.status = "ok"
    /\ session_dicts[ret.id].created_at > SESSION_TTL_SECONDS
    /\ \E j \in DOMAIN session_dicts \ SESSION_STORE :
          session_dicts[j].status = "pending"
    /\ spent # {}
    /\ DOMAIN OAUTH_STATE_STORE = {ret.result.state}

\* ---- C36: in the redirect login, when the login session becomes ready
\* while the CLI is still polling before its deadline, the poll loop ends
\* by writing the access token and the user id to the token file with exit
\* code 0: the CLI that receives the ready response logs in, and no CLI
\* whose session is ready reports before its deadline that the login
\* session is no longer valid.
C36_PollerLogsIn ==
    [][\A c \in Threads :
          /\ (pc[c] = "cli_get" /\ ret.op = "poll" /\ ret.result.status = "ready")
                => /\ pc'[c] = "idle"
                   /\ ret'.result.exit = 0
                   /\ TOKEN_FILE'.exists
                   /\ Truthy(TOKEN_FILE'.access_token)
                   /\ Truthy(TOKEN_FILE'.github_id)
          /\ (/\ pc[c] \in {"cli_loop", "cli_get"}
              /\ pc'[c] = "idle"
              /\ session_dicts[req[c].call.id].status = "ready"
              /\ now <= req[c].deadline)
                => ret'.result.echo # "Login session is no longer valid. Please run login again."]_vars

\* ---- C37: in every reachable state each state token in the state-token
\* store that is at most 300 s old maps to a session that is in the session
\* store with status pending, and no two state tokens map to the same
\* session; hence no callback that passed the state-token check fails with
\* SessionExpired.
C37_StateTokenHasPendingSession ==
    /\ \A st \in DOMAIN OAUTH_STATE_STORE :
          now - OAUTH_STATE_STORE[st].created_at <= STATE_TTL_SECONDS
             => /\ OAUTH_STATE_STORE[st].session_id \in SESSION_STORE
                /\ session_dicts[OAUTH_STATE_STORE[st].session_id].status = "pending"
    /\ \A st, other \in DOMAIN OAUTH_STATE_STORE :
          OAUTH_STATE_STORE[st].session_id = OAUTH_STATE_STORE[other].session_id
             => st = other
    /\ ret.op = "callback" => ret.result # "SessionExpired"

\* A callback has passed the state-token check and the session check while
\* the state token of another login, made later, is in the store and valid.
C37_Witness ==
    /\ \E t \in Threads : pc[t] = "cb_scan_states"
    /\ now > 0
    /\ \E st \in DOMAIN OAUTH_STATE_STORE :
          /\ now - OAUTH_STATE_STORE[st].created_at <= STATE_TTL_SECONDS
          /\ OAUTH_STATE_STORE[st].created_at > 0

\* Every Secret's owner is a User, and every Share names a Secret and a User
\* that exist.
ReferencesExist ==
    /\ \A s \in secrets : s.owner_id \in users
    /\ \A sh \in shares :
          /\ sh.user_id \in users
          /\ \E s \in secrets : s.id = sh.secret_id

\* ---- C38: in every state reached by a sequence of Put, Share, Delete and
\* authentication operations every Secret's owner is an existing User and
\* every Share grant references an existing Secret and an existing User (so
\* no operation leaves a grant whose Secret was deleted), and no operation
\* removes a User.
C38_ReferentialIntegrity ==
    [][ReferencesExist' /\ users \subseteq users']_vars

\* A Delete removed a secret and its grant while another grant is stored and
\* a User exists that authentication created.
C38_Witness ==
    /\ ret.op = "delete"
    /\ ret.result = "ok"
    /\ revoked # {}
    /\ shares # {}
    /\ \E u \in users : u \notin RaceUsers

\* ---- C39: for every caller and every reachable repository state, the
\* result of List(caller) contains no secret more than once.
C39_ListHasNoDuplicates ==
    ret.op = "list" =>
        \A i, j \in DOMAIN ret.result :
            ret.result[i] = ret.result[j] => i = j

====
